---- MODULE Spec2Model ----
(***************************************************************************)
(* The dynamic analysis pipeline of the ItoA dashboard                     *)
(* (POST /api/upload/dynamic-analysis/{channel_type}): data profiling,     *)
(* column interpretation (reasoning call #1), dashboard design (reasoning  *)
(* call #2), plan execution, recommendations (reasoning call #3) and       *)
(* assembly of the response.                                               *)
(*                                                                         *)
(* The endpoint is one handler that suspends only while a reasoning call   *)
(* is awaited, so the model has one action per stretch of the handler      *)
(* between two suspension points, plus the passing of time while a call    *)
(* is in flight.                                                           *)
(*                                                                         *)
(* Numbers are integers; a mean or a median is the floor of the exact      *)
(* value.                                                                  *)
(***************************************************************************)
EXTENDS Integers, Sequences, FiniteSets, TLC

(***************************************************************************)
(* Bounds of the model and constants of the program.                       *)
(***************************************************************************)
MaxRows == 2
MaxKpis == 2
MaxCharts == 2
MaxWait == 2

TopN == 10
SampleRows == 3
MaxKeyMetrics == 5
\* The request timeout of 30 s, in ticks of 30 s.
ReasoningTimeout == 1

(***************************************************************************)
(* Cells, columns, rows.  A cell is a number, a text or a null; the three  *)
(* shapes share one record type.                                           *)
(***************************************************************************)
Num(n) == [t |-> "num", n |-> n, s |-> ""]
Text(x) == [t |-> "text", n |-> 0, s |-> x]
Null == [t |-> "null", n |-> 0, s |-> ""]

NoColumn == "<null>"

Range(f) == {f[i] : i \in DOMAIN f}

Min2(a, b) == IF a <= b THEN a ELSE b

RECURSIVE SeqsUpTo(_, _)
SeqsUpTo(S, n) ==
    IF n = 0 THEN {<<>>}
    ELSE LET shorter == SeqsUpTo(S, n - 1)
         IN  shorter \cup {Append(q, x) : q \in {r \in shorter : Len(r) = n - 1}, x \in S}

\* The subsequences of `pool` with at most n elements, in pool order.
RECURSIVE SubSeqsUpTo(_, _)
SubSeqsUpTo(pool, n) ==
    IF Len(pool) = 0 \/ n = 0 THEN {<<>>}
    ELSE LET rest == SubSeq(pool, 2, Len(pool))
         IN  SubSeqsUpTo(rest, n) \cup {<<pool[1]>> \o q : q \in SubSeqsUpTo(rest, n - 1)}

Dates == {"2024-01-01", "2024-01-02", "2024-01-03"}

\* Chronological position of a date label (ISO dates order as they read).
DateRank(s) ==
    CASE s = "2024-01-01" -> 1
      [] s = "2024-01-02" -> 2
      [] s = "2024-01-03" -> 3
      [] OTHER -> 0

Headers ==
    { <<>>,
      <<"clicks">>,
      <<"date", "clicks">>,
      <<"keyword", "date", "clicks">> }

RowPool(header) ==
    CASE header = <<"clicks">> ->
           { [clicks |-> Num(150)], [clicks |-> Null] }
      [] header = <<"date", "clicks">> ->
           { [date |-> Text("2024-01-02"), clicks |-> Num(175)],
             [date |-> Text("2024-01-01"), clicks |-> Num(150)],
             [date |-> Text("2024-01-01"), clicks |-> Text("n/a")] }
      [] header = <<"keyword", "date", "clicks">> ->
           { [keyword |-> Text("crm"), date |-> Text("2024-01-02"), clicks |-> Num(175)],
             [keyword |-> Text("seo"), date |-> Text("2024-01-01"), clicks |-> Num(150)],
             [keyword |-> Text("crm"), date |-> Text("2024-01-01"), clicks |-> Num(160)] }
      [] OTHER -> {}

\* A Dataset: the header (ordered, unique column names) and the rows.
Datasets ==
    UNION { { [header |-> h, rows |-> r] : r \in SeqsUpTo(RowPool(h), MaxRows) } : h \in Headers }

NoDataset == [header |-> <<>>, rows |-> <<>>]

ColumnSet(ds) == Range(ds.header)

\* The numeric values of a column, in row order; non-numeric cells are left out.
RECURSIVE NumericValues(_, _)
NumericValues(rows, c) ==
    IF Len(rows) = 0 THEN <<>>
    ELSE LET rest == NumericValues(SubSeq(rows, 2, Len(rows)), c)
         IN  IF rows[1][c].t = "num" THEN <<rows[1][c].n>> \o rest ELSE rest

NonNullCount(rows, c) == Cardinality({i \in DOMAIN rows : rows[i][c].t # "null"})

\* A column is numeric when it has a value and every non-null value is a number.
IsNumericColumn(rows, c) ==
    /\ NonNullCount(rows, c) > 0
    /\ \A i \in DOMAIN rows : rows[i][c].t \in {"num", "null"}

RECURSIVE SumSeq(_)
SumSeq(q) == IF Len(q) = 0 THEN 0 ELSE q[1] + SumSeq(SubSeq(q, 2, Len(q)))

MinSeq(q) == CHOOSE m \in Range(q) : \A x \in Range(q) : m <= x
MaxSeq(q) == CHOOSE m \in Range(q) : \A x \in Range(q) : m >= x
MeanSeq(q) == SumSeq(q) \div Len(q)

\* Stable insertion sort of records by their integer field k, ascending.
RECURSIVE InsertByKey(_, _)
InsertByKey(sorted, e) ==
    IF Len(sorted) = 0 THEN <<e>>
    ELSE IF sorted[Len(sorted)].k <= e.k THEN Append(sorted, e)
    ELSE Append(InsertByKey(SubSeq(sorted, 1, Len(sorted) - 1), e), sorted[Len(sorted)])

RECURSIVE SortByKey(_)
SortByKey(q) ==
    IF Len(q) = 0 THEN <<>>
    ELSE InsertByKey(SortByKey(SubSeq(q, 1, Len(q) - 1)), q[Len(q)])

MedianSeq(q) ==
    LET s == SortByKey([i \in DOMAIN q |-> [k |-> q[i]]])
        n == Len(q)
    IN  IF n % 2 = 1 THEN s[(n + 1) \div 2].k
        ELSE (s[n \div 2].k + s[n \div 2 + 1].k) \div 2

(***************************************************************************)
(* Step 1: data profiling.                                                 *)
(***************************************************************************)
\* The upload parses when the payload is delimited text with at least one column.
Loadable(payload) == payload.parses /\ Len(payload.dataset.header) > 0

ColumnStats(rows, c) ==
    LET v == NumericValues(rows, c)
    IN  [min |-> MinSeq(v), max |-> MaxSeq(v), mean |-> MeanSeq(v), median |-> MedianSeq(v)]

Profile(ds) ==
    LET numeric == {c \in ColumnSet(ds) : IsNumericColumn(ds.rows, c)}
    IN  [ column_names |-> ds.header,
          stats_summary |-> [c \in numeric |-> ColumnStats(ds.rows, c)],
          sample |-> SubSeq(ds.rows, 1, Min2(SampleRows, Len(ds.rows))) ]

NoProfile == [column_names |-> <<>>, stats_summary |-> <<>>, sample |-> <<>>]

(***************************************************************************)
(* The reasoning service.  A call ends in one of these ways; `usable` text *)
(* parses into the shape the stage expects, `empty` is a blank completion, *)
(* `malformed` does not parse, `unavailable` is ReasoningUnavailable       *)
(* (network failure, non-2xx, rate limit).                                 *)
(***************************************************************************)
ResponseKinds == {"usable", "empty", "malformed", "unavailable"}

Stages == <<"interpretation", "design", "recommendation">>

(***************************************************************************)
(* Step 2: column interpretation (reasoning call #1).                      *)
(***************************************************************************)
UnknownColumn == "revenue"

ColumnInterpretation(meaning, type, category) ==
    [meaning |-> meaning, type |-> type, category |-> category]

NoInterpretation == [columns |-> <<>>, primary_date_column |-> NoColumn, key_metrics |-> <<>>]

IsDateText(cell) == cell.t = "text" /\ cell.s \in Dates

\* A column looks like a date by its name or by its sampled values.
LooksLikeDate(profile, c) ==
    \/ c = "date"
    \/ /\ Len(profile.sample) > 0
       /\ \A i \in DOMAIN profile.sample : IsDateText(profile.sample[i][c])

FirstIndex(S) == CHOOSE i \in S : \A j \in S : i <= j

\* The first `n` elements of a sequence.
Take(q, n) == SubSeq(q, 1, Min2(n, Len(q)))

RECURSIVE Items(_)
Items(keyed) == IF Len(keyed) = 0 THEN <<>> ELSE <<keyed[1].item>> \o Items(Tail(keyed))

\* Every column with statistics is a measure, every other one a dimension; the
\* primary date column is the first date-like column; the key metrics are the
\* measures with the widest range.
HeuristicInterpretation(profile) ==
    LET cols == profile.column_names
        measures == DOMAIN profile.stats_summary
        dateIdx == {i \in DOMAIN cols : LooksLikeDate(profile, cols[i])}
        isMeasure(c) == c \in measures
        byRange == SortByKey([i \in DOMAIN SelectSeq(cols, isMeasure) |->
                       LET c == SelectSeq(cols, isMeasure)[i]
                       IN  [k |-> profile.stats_summary[c].min - profile.stats_summary[c].max,
                            item |-> c]])
    IN  [ columns |-> [c \in Range(cols) |->
                         IF c \in measures
                         THEN ColumnInterpretation("numeric column", "measure", "metric")
                         ELSE ColumnInterpretation("text column", "dimension", "identifier")],
          primary_date_column |-> IF dateIdx = {} THEN NoColumn ELSE cols[FirstIndex(dateIdx)],
          key_metrics |-> Take(Items(byRange), MaxKeyMetrics) ]

\* What the service may answer for a profile: a sound interpretation, and one
\* that also describes a column the file does not have and names no date.
InterpretationAnswers(profile) ==
    LET cols == profile.column_names
        measures == DOMAIN profile.stats_summary
        isMeasure(c) == c \in measures
        sound == [c \in Range(cols) |->
                    IF c \in measures
                    THEN ColumnInterpretation("Number of user clicks", "measure", "engagement")
                    ELSE IF c = "date"
                    THEN ColumnInterpretation("Campaign date", "dimension", "date")
                    ELSE ColumnInterpretation("Search keyword", "dimension", "identifier")]
        extra == [c \in Range(cols) \cup {UnknownColumn} |->
                    IF c = UnknownColumn
                    THEN ColumnInterpretation("Revenue earned", "measure", "performance")
                    ELSE sound[c]]
    IN  { [ columns |-> sound,
            primary_date_column |-> IF "date" \in Range(cols) THEN "date" ELSE NoColumn,
            key_metrics |-> SelectSeq(cols, isMeasure) ],
          [ columns |-> extra,
            primary_date_column |-> UnknownColumn,
            key_metrics |-> <<UnknownColumn>> \o SelectSeq(cols, isMeasure) ] }

\* Faulty variant: the parsed answer is taken as it is.
KnownColumnsOnly_asAnswered(profile, body) == body

\* Entries for columns the Profile does not have are dropped.
KnownColumnsOnly(profile, body) ==
    LET known == Range(profile.column_names)
        isKnown(c) == c \in known
    IN  [ columns |-> [c \in DOMAIN body.columns \cap known |-> body.columns[c]],
          primary_date_column |->
              IF body.primary_date_column \in known THEN body.primary_date_column ELSE NoColumn,
          key_metrics |-> SelectSeq(body.key_metrics, isKnown) ]

\* Faulty variant: ReasoningUnavailable is not caught and leaves the stage.
InterpretSchema_raises(profile, kind, body) ==
    IF kind = "usable"
    THEN [raised |-> FALSE, fallback |-> FALSE, value |-> KnownColumnsOnly(profile, body)]
    ELSE [raised |-> kind = "unavailable", fallback |-> TRUE, value |-> HeuristicInterpretation(profile)]

\* Faulty variant: text that does not parse yields an interpretation without columns.
InterpretSchema_blankOnMalformed(profile, kind, body) ==
    IF kind = "usable"
    THEN [raised |-> FALSE, fallback |-> FALSE, value |-> KnownColumnsOnly(profile, body)]
    ELSE [raised |-> FALSE, fallback |-> TRUE,
          value |-> IF kind = "malformed" THEN NoInterpretation
                    ELSE HeuristicInterpretation(profile)]

\* The stage's result: the parsed answer, or the heuristic one when the call
\* failed or its text did not parse.  The stage does not raise.
InterpretSchema(profile, kind, body) ==
    IF kind = "usable"
    THEN [raised |-> FALSE, fallback |-> FALSE, value |-> KnownColumnsOnly(profile, body)]
    ELSE [raised |-> FALSE, fallback |-> TRUE, value |-> HeuristicInterpretation(profile)]

(***************************************************************************)
(* Step 3: dashboard design (reasoning call #2).                           *)
(***************************************************************************)
Calculations == {"sum", "average", "count", "max", "min"}
Aggregations == {"sum", "average", "count", "max", "min"}
ChartTypes == {"line", "bar", "pie", "area", "scatter"}
Formats == {"number", "percentage", "currency", "duration"}

KPISpec(name, calculation, columns_needed, format) ==
    [name |-> name, calculation |-> calculation, columns_needed |-> columns_needed,
     format |-> format]

ChartSpec(title, chart_type, x_axis, y_axis, grouping, aggregation) ==
    [title |-> title, chart_type |-> chart_type, description |-> title,
     x_axis |-> x_axis, y_axis |-> y_axis, grouping |-> grouping, aggregation |-> aggregation]

NoPlan == [kpis |-> <<>>, charts |-> <<>>]

\* The KPI and chart specifications the service may put in a plan.  The service
\* writes a calculation as a phrase ("sum of clicks"); it may name a column the
\* file does not have, and it may write anything at all.
KpiPool ==
    << KPISpec("Average Clicks", "average", <<"clicks">>, "number"),
       KPISpec("Total Revenue", "sum", <<UnknownColumn>>, "currency"),
       KPISpec("Total Clicks", "sum of clicks", <<"clicks">>, "number"),
       KPISpec("Doubled Clicks", "clicks * 2", <<"clicks">>, "number") >>

ChartPool ==
    << ChartSpec("Clicks Over Time", "line", "date", "clicks", "date", "average"),
       ChartSpec("Revenue Over Time", "line", "date", UnknownColumn, NoColumn, "sum"),
       ChartSpec("Top Days by Clicks", "bar", "date", "clicks", NoColumn, "sum"),
       ChartSpec("Clicks Radar", "radar", NoColumn, "clicks", NoColumn, "sum") >>

PlanAnswers ==
    { [kpis |-> k, charts |-> c] :
        k \in SubSeqsUpTo(KpiPool, MaxKpis), c \in SubSeqsUpTo(ChartPool, MaxCharts) }

\* The default plan: the record count, and a bar chart of the record count by
\* the primary date column, else by the first dimension column (else by the
\* first column, when the interpretation has neither).
DefaultPlan(profile, interp) ==
    LET cols == profile.column_names
        dimIdx == {i \in DOMAIN cols :
                     /\ cols[i] \in DOMAIN interp.columns
                     /\ interp.columns[cols[i]].type = "dimension"}
        by == IF interp.primary_date_column # NoColumn THEN interp.primary_date_column
              ELSE IF dimIdx # {} THEN cols[FirstIndex(dimIdx)]
              ELSE cols[1]
    IN  [ kpis |-> << KPISpec("Total Records", "count", <<>>, "number") >>,
          charts |-> << ChartSpec("Record Distribution", "bar", by, by, by, "count") >> ]

\* Faulty variant: a failed design leaves the plan empty.
DesignPlan_emptyOnFailure(profile, interp, kind, body) ==
    IF kind = "usable"
    THEN [raised |-> FALSE, fallback |-> FALSE, value |-> body]
    ELSE [raised |-> FALSE, fallback |-> TRUE, value |-> NoPlan]

\* The stage's result: the parsed plan, or the default plan when the call
\* failed or its text did not parse.  The stage does not raise.
DesignPlan(profile, interp, kind, body) ==
    IF kind = "usable"
    THEN [raised |-> FALSE, fallback |-> FALSE, value |-> body]
    ELSE [raised |-> FALSE, fallback |-> TRUE, value |-> DefaultPlan(profile, interp)]

(***************************************************************************)
(* Step 4: data calculations.                                              *)
(***************************************************************************)
\* `word in phrase` for the phrases of the model.
Contains(phrase, word) ==
    \/ phrase = word
    \/ <<phrase, word>> \in { <<"sum of clicks", "sum">>, <<"average of clicks", "average">> }

\* The calculation a phrase selects: the first keyword it contains.
Keyword(calculation) ==
    IF Contains(calculation, "sum") THEN "sum"
    ELSE IF Contains(calculation, "average") THEN "average"
    ELSE IF Contains(calculation, "count") THEN "count"
    ELSE IF Contains(calculation, "max") THEN "max"
    ELSE IF Contains(calculation, "min") THEN "min"
    ELSE "none"

\* Faulty variant: "sum" counts the rows.
Aggregate_sumCounts(keyword, values, size) ==
    CASE keyword \in {"sum", "count"} -> [ok |-> TRUE, value |-> size]
      [] keyword = "average" ->
           IF Len(values) = 0 THEN [ok |-> FALSE, value |-> 0]
           ELSE [ok |-> TRUE, value |-> MeanSeq(values)]
      [] keyword = "max" ->
           IF Len(values) = 0 THEN [ok |-> FALSE, value |-> 0]
           ELSE [ok |-> TRUE, value |-> MaxSeq(values)]
      [] keyword = "min" ->
           IF Len(values) = 0 THEN [ok |-> FALSE, value |-> 0]
           ELSE [ok |-> TRUE, value |-> MinSeq(values)]
      [] OTHER -> [ok |-> FALSE, value |-> 0]

\* One aggregate over the numeric values of a partition of `size` rows.  The
\* mean, the maximum and the minimum of no values are calculation errors.
Aggregate(keyword, values, size) ==
    CASE keyword = "sum" -> [ok |-> TRUE, value |-> SumSeq(values)]
      [] keyword = "count" -> [ok |-> TRUE, value |-> size]
      [] keyword = "average" ->
           IF Len(values) = 0 THEN [ok |-> FALSE, value |-> 0]
           ELSE [ok |-> TRUE, value |-> MeanSeq(values)]
      [] keyword = "max" ->
           IF Len(values) = 0 THEN [ok |-> FALSE, value |-> 0]
           ELSE [ok |-> TRUE, value |-> MaxSeq(values)]
      [] keyword = "min" ->
           IF Len(values) = 0 THEN [ok |-> FALSE, value |-> 0]
           ELSE [ok |-> TRUE, value |-> MinSeq(values)]
      [] OTHER -> [ok |-> FALSE, value |-> 0]

\* A column with values of which none is a number cannot be coerced.
CoercionFails(rows, c) ==
    NonNullCount(rows, c) > 0 /\ Len(NumericValues(rows, c)) = 0

KpiColumnsExist(ds, kpi) == \A i \in DOMAIN kpi.columns_needed : kpi.columns_needed[i] \in ColumnSet(ds)

\* Faulty variant: a calculation text without a keyword is evaluated as an expression
\* ("clicks * 2" is twice the sum of clicks here).
ComputeKpi_evaluates(ds, kpi) ==
    LET keyword == Keyword(kpi.calculation)
    IN  IF keyword = "none"
        THEN [status |-> "ok", value |-> 2 * SumSeq(NumericValues(ds.rows, kpi.columns_needed[1]))]
        ELSE IF keyword = "count" THEN [status |-> "ok", value |-> Len(ds.rows)]
        ELSE IF Len(kpi.columns_needed) = 0 THEN [status |-> "error", value |-> 0]
        ELSE LET c == kpi.columns_needed[1]
                 a == Aggregate(keyword, NumericValues(ds.rows, c), Len(ds.rows))
             IN  IF CoercionFails(ds.rows, c) \/ ~a.ok THEN [status |-> "error", value |-> 0]
                 ELSE [status |-> "ok", value |-> a.value]

\* The calculation of one KPI whose columns exist, chosen by the keyword its
\* calculation text contains; a text with no keyword assigns no value, and
\* the text is never evaluated.
ComputeKpi(ds, kpi) ==
    LET keyword == Keyword(kpi.calculation)
    IN  IF keyword = "none" THEN [status |-> "unsupported", value |-> 0]
        ELSE IF keyword = "count" THEN [status |-> "ok", value |-> Len(ds.rows)]
        ELSE IF Len(kpi.columns_needed) = 0 THEN [status |-> "error", value |-> 0]
        ELSE LET c == kpi.columns_needed[1]
                 a == Aggregate(keyword, NumericValues(ds.rows, c), Len(ds.rows))
             IN  IF CoercionFails(ds.rows, c) \/ ~a.ok THEN [status |-> "error", value |-> 0]
                 ELSE [status |-> "ok", value |-> a.value]

\* Faulty variant: a missing column reads as a column of zeros.
KpiOutcome_unchecked(ds, kpi) ==
    IF ~KpiColumnsExist(ds, kpi) THEN [status |-> "ok", value |-> 0]
    ELSE ComputeKpi(ds, kpi)

\* One KPI: skipped when a column it needs is missing, calculated otherwise.
KpiOutcome(ds, kpi) ==
    IF ~KpiColumnsExist(ds, kpi) THEN [status |-> "missing_column", value |-> 0]
    ELSE ComputeKpi(ds, kpi)

Put(f, key, v) == [x \in DOMAIN f \cup {key} |-> IF x = key THEN v ELSE f[x]]

\* Faulty variant: one try block around the whole loop, so the first calculation
\* error ends it.
RECURSIVE RunKpis_abortOnError(_, _, _)
RunKpis_abortOnError(ds, kpis, acc) ==
    IF Len(kpis) = 0 THEN acc
    ELSE LET o == KpiOutcome(ds, kpis[1])
         IN  IF o.status = "error" THEN acc
             ELSE RunKpis_abortOnError(ds, Tail(kpis),
                     IF o.status = "ok" THEN Put(acc, kpis[1].name, o.value) ELSE acc)

\* The KPI loop: each KPI in turn, a skipped or failed one leaves no entry.
RECURSIVE RunKpis(_, _, _)
RunKpis(ds, kpis, acc) ==
    IF Len(kpis) = 0 THEN acc
    ELSE LET o == KpiOutcome(ds, kpis[1])
         IN  RunKpis(ds, Tail(kpis),
                     IF o.status = "ok" THEN Put(acc, kpis[1].name, o.value) ELSE acc)

ExecuteKpis(ds, plan) == RunKpis(ds, plan.kpis, <<>>)

\* The text a cell shows as a chart label.
LabelOf(cell) ==
    IF cell.t = "text" THEN cell.s
    ELSE IF cell.t = "num" THEN ToString(cell.n)
    ELSE "null"

\* The distinct non-null values of the grouping column, by first appearance.
RECURSIVE GroupLabels(_, _)
GroupLabels(rows, g) ==
    IF Len(rows) = 0 THEN <<>>
    ELSE LET before == GroupLabels(SubSeq(rows, 1, Len(rows) - 1), g)
             cell == rows[Len(rows)][g]
         IN  IF cell.t = "null" \/ LabelOf(cell) \in Range(before) THEN before
             ELSE Append(before, LabelOf(cell))

Partition(rows, g, label) ==
    LET inGroup(r) == r[g].t # "null" /\ LabelOf(r[g]) = label
    IN  SelectSeq(rows, inGroup)

Point(label, value) == [label |-> label, value |-> value]

ChartColumnsExist(ds, chart) ==
    /\ chart.y_axis \in ColumnSet(ds)
    /\ chart.x_axis = NoColumn \/ chart.x_axis \in ColumnSet(ds)
    /\ chart.grouping = NoColumn \/ chart.grouping \in ColumnSet(ds)

ChartValid(ds, chart) ==
    /\ ChartColumnsExist(ds, chart)
    /\ chart.chart_type \in ChartTypes
    /\ chart.aggregation \in Aggregations

\* Faulty variant: the groups of the primary date column stay in the order
\* the rows give them.
GroupedData_rowOrder(ds, chart, primaryDate) ==
    LET g == chart.grouping
        y == chart.y_axis
        labels == GroupLabels(ds.rows, g)
        agg == [i \in DOMAIN labels |->
                  LET part == Partition(ds.rows, g, labels[i])
                  IN  Aggregate(chart.aggregation, NumericValues(part, y), Len(part))]
        keyed == [i \in DOMAIN labels |->
                    [k |-> IF g = primaryDate THEN 0 ELSE 0 - agg[i].value,
                     item |-> Point(labels[i], agg[i].value)]]
        ordered == Items(SortByKey(keyed))
    IN  IF (chart.aggregation # "count" /\ CoercionFails(ds.rows, y))
           \/ \E i \in DOMAIN labels : ~agg[i].ok
        THEN <<>>
        ELSE IF g # primaryDate /\ chart.chart_type \in {"bar", "pie"} THEN Take(ordered, TopN)
        ELSE ordered

\* Faulty variant: the groups are cut to the first ten in the order they are
\* met, without ranking them.
GroupedData_firstTen(ds, chart, primaryDate) ==
    LET g == chart.grouping
        y == chart.y_axis
        labels == GroupLabels(ds.rows, g)
        agg == [i \in DOMAIN labels |->
                  LET part == Partition(ds.rows, g, labels[i])
                  IN  Aggregate(chart.aggregation, NumericValues(part, y), Len(part))]
        points == [i \in DOMAIN labels |-> Point(labels[i], agg[i].value)]
    IN  IF (chart.aggregation # "count" /\ CoercionFails(ds.rows, y))
           \/ \E i \in DOMAIN labels : ~agg[i].ok
        THEN <<>>
        ELSE IF g # primaryDate /\ chart.chart_type \in {"bar", "pie"} THEN Take(points, TopN)
        ELSE points

\* One point per distinct group value: chronological when the grouping column
\* is the primary date column, else by descending value, the TopN highest for
\* bar and pie charts.  A calculation error in a group empties the chart.
GroupedData(ds, chart, primaryDate) ==
    LET g == chart.grouping
        y == chart.y_axis
        labels == GroupLabels(ds.rows, g)
        agg == [i \in DOMAIN labels |->
                  LET part == Partition(ds.rows, g, labels[i])
                  IN  Aggregate(chart.aggregation, NumericValues(part, y), Len(part))]
        keyed == [i \in DOMAIN labels |->
                    [k |-> IF g = primaryDate THEN DateRank(labels[i]) ELSE 0 - agg[i].value,
                     item |-> Point(labels[i], agg[i].value)]]
        ordered == Items(SortByKey(keyed))
    IN  IF (chart.aggregation # "count" /\ CoercionFails(ds.rows, y))
           \/ \E i \in DOMAIN labels : ~agg[i].ok
        THEN <<>>
        ELSE IF g # primaryDate /\ chart.chart_type \in {"bar", "pie"} THEN Take(ordered, TopN)
        ELSE ordered

\* Without a grouping each row is a point, labelled by the x axis or by the
\* row index; a row whose value is not a number gives no point.
RECURSIVE RowPoints(_, _, _)
RowPoints(rows, chart, n) ==
    IF n = 0 THEN <<>>
    ELSE LET before == RowPoints(rows, chart, n - 1)
             label == IF chart.x_axis = NoColumn THEN ToString(n - 1)
                      ELSE LabelOf(rows[n][chart.x_axis])
         IN  IF rows[n][chart.y_axis].t = "num"
             THEN Append(before, Point(label, rows[n][chart.y_axis].n))
             ELSE before

UngroupedData(ds, chart) == RowPoints(ds.rows, chart, Len(ds.rows))

ChartData(ds, chart, primaryDate) ==
    IF chart.grouping # NoColumn THEN GroupedData(ds, chart, primaryDate)
    ELSE UngroupedData(ds, chart)

ChartResult(chart, data) ==
    [title |-> chart.title, type |-> chart.chart_type, description |-> chart.description,
     data |-> data]

\* Faulty variant: a chart that fails validation is emitted without data.
RECURSIVE RunCharts_keepsInvalid(_, _, _, _)
RunCharts_keepsInvalid(ds, charts, primaryDate, acc) ==
    IF Len(charts) = 0 THEN acc
    ELSE RunCharts_keepsInvalid(ds, Tail(charts), primaryDate,
                   IF ChartValid(ds, charts[1])
                   THEN Append(acc, ChartResult(charts[1], ChartData(ds, charts[1], primaryDate)))
                   ELSE Append(acc, ChartResult(charts[1], <<>>)))

\* The chart loop: each chart in turn, one that fails validation is skipped.
RECURSIVE RunCharts(_, _, _, _)
RunCharts(ds, charts, primaryDate, acc) ==
    IF Len(charts) = 0 THEN acc
    ELSE RunCharts(ds, Tail(charts), primaryDate,
                   IF ChartValid(ds, charts[1])
                   THEN Append(acc, ChartResult(charts[1], ChartData(ds, charts[1], primaryDate)))
                   ELSE acc)

ExecuteCharts(ds, plan, primaryDate) == RunCharts(ds, plan.charts, primaryDate, <<>>)

(***************************************************************************)
(* Step 5: recommendations (reasoning call #3).                            *)
(***************************************************************************)
Channels == {"seo", "email"}

RecommendationAnswers ==
    { << "Focus on top-performing keywords with CTR above 3%",
         "Improve ranking for keywords in positions 10-20" >> }

\* The generic best-practice statements of a channel.
GenericRecommendations(ch) ==
    IF ch = "email"
    THEN << "Segment your audience and send targeted campaigns",
            "A/B test subject lines to improve open rates",
            "Review the elements of your top-performing campaigns" >>
    ELSE << "Review your top-performing content regularly",
            "Track your key metrics over time to spot trends" >>

\* Faulty variant: a parsed list is returned as it is, also when it has no entry.
GenerateRecommendations_passEmpty(ch, kind, body) ==
    IF kind \in {"usable", "empty"}
    THEN [raised |-> FALSE, fallback |-> FALSE, value |-> body]
    ELSE [raised |-> FALSE, fallback |-> TRUE, value |-> GenericRecommendations(ch)]

\* The stage's result: the parsed list, or the generic statements when the
\* call failed, its text did not parse, or the list is empty.
GenerateRecommendations(ch, kind, body) ==
    IF kind = "usable" /\ Len(body) > 0
    THEN [raised |-> FALSE, fallback |-> FALSE, value |-> body]
    ELSE [raised |-> FALSE, fallback |-> TRUE, value |-> GenericRecommendations(ch)]

(***************************************************************************)
(* The endpoint.                                                           *)
(***************************************************************************)
VARIABLES
    pc,               \* where the handler is: idle, interpreting, designing,
                      \* recommending (awaiting a call), done, failed, error
    request,          \* the uploaded payload
    channel,          \* the channel_type of the request
    dataset,          \* the loaded DataFrame
    profile,          \* step 1
    interpretation,   \* step 2
    plan,             \* step 3
    kpis,             \* step 4: KPI name -> value
    charts,           \* step 4: chart results
    recommendations,  \* step 5
    success,          \* the response's success flag
    message,          \* the response's message
    fallbacks,        \* the stages that used their fallback
    completed,        \* the steps whose output is in place
    calls,            \* the reasoning calls started so far, in order
    inflight,         \* the reasoning calls awaiting their answer
    waited,           \* how long the call in flight has been awaited
    lastKind          \* how the last reasoning call ended

\* The browser: the AuthProvider's state, the closure of its function in
\* flight, localStorage, the page's address, the API helper in flight.
VARIABLES
    isAuthenticated,  \* AuthProvider state
    user,             \* AuthProvider state
    token,            \* AuthProvider state
    isLoading,        \* AuthProvider state
    error,            \* AuthProvider state
    localStorage,     \* key -> stored string
    location,         \* window.location.href
    authPc,           \* where the AuthProvider is: unmounted, verifying (initializeAuth
                      \* awaits verifyToken), ready, login-token, login-user
    locals,           \* storedToken, storedUser of initializeAuth; access_token of login
                      \* and the error login() threw to its caller
    apiPc,            \* the API helper awaiting its fetch, or "idle"
    apiOutcome,       \* how the last API helper call ended
    network           \* the requests sent so far, with their outcomes

\* The pages: the UploadCSVTab's state and requests, the OAuth callback page
\* and the login page's Google button, the requests of the other tabs.
VARIABLES
    selectedChannel,  \* UploadCSVTab state
    file,             \* UploadCSVTab state
    isAnalyzing,      \* UploadCSVTab state
    analysisError,    \* UploadCSVTab state `error`
    analysisResult,   \* UploadCSVTab state
    uploads,          \* the dynamic-analysis requests sent so far, with their outcomes
    searchParams,     \* the query of the address the callback page was opened with
    hasProcessed,     \* AuthCallback ref
    callbackError,    \* AuthCallback state `error`
    processing,       \* AuthCallback state
    callbackPc,       \* where the callback page is: closed, mounted, fetching,
                      \* stored, finished
    sessionStorage,   \* the value of oauth_in_progress
    events,           \* what the callback page did since it was opened, in order
    timers,           \* the pending setTimeout navigations of the callback page
    tabRequest,       \* the last request of a tab component
    tabError          \* the error the tab component shows

handler == << pc, request, channel, dataset, profile, interpretation, plan, kpis, charts,
              recommendations, success, message, fallbacks, completed, calls, inflight,
              waited, lastKind >>

browser == << isAuthenticated, user, token, isLoading, error, localStorage, location, authPc,
              locals, apiPc, apiOutcome, network >>

pages == << selectedChannel, file, isAnalyzing, analysisError, analysisResult, uploads,
            searchParams, hasProcessed, callbackError, processing, callbackPc,
            sessionStorage, events, timers, tabRequest, tabError >>

vars == << pc, request, channel, dataset, profile, interpretation, plan, kpis, charts,
           recommendations, success, message, fallbacks, completed, calls, inflight,
           waited, lastKind, isAuthenticated, user, token, isLoading, error, localStorage,
           location, authPc, locals, apiPc, apiOutcome, network,
           selectedChannel, file, isAnalyzing, analysisError, analysisResult, uploads,
           searchParams, hasProcessed, callbackError, processing, callbackPc,
           sessionStorage, events, timers, tabRequest, tabError >>

TOKEN_KEY == "auth_token"
USER_KEY == "auth_user"

\* null, for a string and for a User.
NullString == "<null>"
NullUser == [username |-> "<null>"]

\* The keys of an earlier version, still read by the tab components.
LEGACY_TOKEN_KEY == "token"
LEGACY_USER_KEY == "user"

EmptyStorage ==
    [k \in {TOKEN_KEY, USER_KEY, LEGACY_TOKEN_KEY, LEGACY_USER_KEY} |-> NullString]

NoLocals ==
    [storedToken |-> NullString, storedUser |-> NullString, access_token |-> NullString,
     thrown |-> NullString]

\* How a call of an API helper ended: "returned" with the response's status,
\* or "threw" with the error's message.
Outcome(kind, status, msg) == [kind |-> kind, status |-> status, message |-> msg]
NoOutcome == Outcome("none", 0, "")

\* The query of an address without parameters.
NoParams == [token |-> NullString, error |-> NullString]

\* What a tab component sent when it last ran, and how the request ended;
\* auth is the token of its Authorization header, null without the header.
TabRequest(by, url, auth, outcome) == [by |-> by, url |-> url, auth |-> auth, outcome |-> outcome]

\* No tab component has run.
NoRequest == TabRequest("none", "", NullString, "none")

\* No analysis result; the result of the analysis started as number `of`.
NoResult == [of |-> 0, channel_type |-> "", file_name |-> ""]

\* The pages before any of them is used.
PagesClosed ==
    /\ selectedChannel = ""
    /\ file = NullString
    /\ isAnalyzing = FALSE
    /\ analysisError = NullString
    /\ analysisResult = NoResult
    /\ uploads = <<>>
    /\ searchParams = NoParams
    /\ hasProcessed = FALSE
    /\ callbackError = ""
    /\ processing = TRUE
    /\ callbackPc = "closed"
    /\ sessionStorage = NullString
    /\ events = <<>>
    /\ timers = <<>>
    /\ tabRequest = NoRequest
    /\ tabError = NullString

\* No page is open.
BrowserClosed ==
    /\ isAuthenticated = FALSE
    /\ user = NullUser
    /\ token = NullString
    /\ isLoading = TRUE
    /\ error = NullString
    /\ localStorage = EmptyStorage
    /\ location = "/"
    /\ authPc = "unmounted"
    /\ locals = NoLocals
    /\ apiPc = "idle"
    /\ apiOutcome = NoOutcome
    /\ network = <<>>

outputs == << dataset, profile, interpretation, plan, kpis, charts, recommendations >>

Payloads ==
    {[parses |-> FALSE, dataset |-> NoDataset]} \cup {[parses |-> TRUE, dataset |-> d] : d \in Datasets}

Init ==
    /\ pc = "idle"
    /\ request = [parses |-> FALSE, dataset |-> NoDataset]
    /\ channel = "seo"
    /\ dataset = NoDataset
    /\ profile = NoProfile
    /\ interpretation = NoInterpretation
    /\ plan = NoPlan
    /\ kpis = <<>>
    /\ charts = <<>>
    /\ recommendations = <<>>
    /\ success = FALSE
    /\ message = ""
    /\ fallbacks = {}
    /\ completed = {}
    /\ calls = <<>>
    /\ inflight = {}
    /\ waited = 0
    /\ lastKind = "none"
    /\ BrowserClosed
    /\ PagesClosed

\* Faulty variant: the design call is started together with the interpretation call.
CallsAfter_concurrent(step) ==
    CASE step = "profiling" -> <<"interpretation", "design">>
      [] step = "interpretation" -> <<>>
      [] step = "execution" -> <<"recommendation">>
      [] OTHER -> <<>>

\* The reasoning calls the handler starts when a step is over: the steps run
\* in the order profiling, interpretation, design, execution, recommendation,
\* assembly, and each call is awaited before the next step.
CallsAfter(step) ==
    CASE step = "profiling" -> <<"interpretation">>
      [] step = "interpretation" -> <<"design">>
      [] step = "execution" -> <<"recommendation">>
      [] OTHER -> <<>>

\* Faulty variant: an unavailable service is asked once more.
Retries_onUnavailable(stage, kind) ==
    IF kind = "unavailable" THEN <<stage>> ELSE <<>>

\* The attempts the client makes after an attempt has ended: none, a call is
\* one attempt against the service whatever its outcome.
Retries(stage, kind) == <<>>

\* The client sends the request of a call again.
Resend(stage, kind) ==
    /\ calls' = calls \o Retries(stage, kind)
    /\ waited' = 0
    /\ UNCHANGED << pc, outputs, success, message, fallbacks, completed, inflight >>

\* An exception that leaves a step ends the request with a 500.
Raise ==
    /\ pc' = "error"
    /\ success' = FALSE
    /\ message' = "Internal Server Error"
    /\ inflight' = {}
    /\ waited' = 0

\* POST /api/upload/dynamic-analysis/{channel_type}: load the CSV, profile it,
\* start reasoning call #1.
Upload(payload, ch) ==
    /\ pc = "idle"
    /\ request' = payload
    /\ channel' = ch
    /\ IF ~Loadable(payload)
       THEN /\ pc' = "failed"
            /\ success' = FALSE
            /\ message' = "Failed to parse CSV"
            /\ UNCHANGED << outputs, fallbacks, completed, calls, inflight, waited, lastKind >>
       ELSE /\ dataset' = payload.dataset
            /\ profile' = Profile(payload.dataset)
            /\ completed' = {"profiling"}
            /\ calls' = calls \o CallsAfter("profiling")
            /\ inflight' = Range(CallsAfter("profiling"))
            /\ waited' = 0
            /\ pc' = "interpreting"
            /\ UNCHANGED << interpretation, plan, kpis, charts, recommendations, success,
                            message, fallbacks, lastKind >>
    /\ UNCHANGED browser
    /\ UNCHANGED pages

\* Reasoning call #1 ends: interpret the columns, start reasoning call #2.
InterpretationReturns(kind, body) ==
    /\ pc = "interpreting"
    /\ "interpretation" \in inflight
    /\ lastKind' = kind
    /\ LET r == InterpretSchema(profile, kind, body)
       IN  IF Retries("interpretation", kind) # <<>>
           THEN Resend("interpretation", kind)
           ELSE IF r.raised
           THEN /\ Raise
                /\ UNCHANGED << outputs, fallbacks, completed, calls >>
           ELSE /\ interpretation' = r.value
                /\ fallbacks' = IF r.fallback THEN fallbacks \cup {"interpretation"} ELSE fallbacks
                /\ completed' = completed \cup {"interpretation"}
                /\ calls' = calls \o CallsAfter("interpretation")
                /\ inflight' = (inflight \ {"interpretation"}) \cup Range(CallsAfter("interpretation"))
                /\ waited' = 0
                /\ pc' = "designing"
                /\ UNCHANGED << dataset, profile, plan, kpis, charts, recommendations,
                                success, message >>
    /\ UNCHANGED << request, channel >>
    /\ UNCHANGED browser
    /\ UNCHANGED pages

\* Reasoning call #2 ends: take the plan, execute it, start reasoning call #3.
DesignReturns(kind, body) ==
    /\ pc = "designing"
    /\ "design" \in inflight
    /\ lastKind' = kind
    /\ LET r == DesignPlan(profile, interpretation, kind, body)
       IN  IF Retries("design", kind) # <<>>
           THEN Resend("design", kind)
           ELSE IF r.raised
           THEN /\ Raise
                /\ UNCHANGED << outputs, fallbacks, completed, calls >>
           ELSE /\ plan' = r.value
                /\ kpis' = ExecuteKpis(dataset, r.value)
                /\ charts' = ExecuteCharts(dataset, r.value, interpretation.primary_date_column)
                /\ fallbacks' = IF r.fallback THEN fallbacks \cup {"design"} ELSE fallbacks
                /\ completed' = completed \cup {"design", "execution"}
                /\ calls' = calls \o CallsAfter("execution")
                /\ inflight' = (inflight \ {"design"}) \cup Range(CallsAfter("execution"))
                /\ waited' = 0
                /\ pc' = "recommending"
                /\ UNCHANGED << dataset, profile, interpretation, recommendations,
                                success, message >>
    /\ UNCHANGED << request, channel >>
    /\ UNCHANGED browser
    /\ UNCHANGED pages

\* Reasoning call #3 ends: take the recommendations, assemble the response.
RecommendationsReturn(kind, body) ==
    /\ pc = "recommending"
    /\ "recommendation" \in inflight
    /\ lastKind' = kind
    /\ LET r == GenerateRecommendations(channel, kind, body)
       IN  IF Retries("recommendation", kind) # <<>>
           THEN Resend("recommendation", kind)
           ELSE IF r.raised
           THEN /\ Raise
                /\ UNCHANGED << outputs, fallbacks, completed, calls >>
           ELSE /\ recommendations' = r.value
                /\ fallbacks' = IF r.fallback THEN fallbacks \cup {"recommendation"} ELSE fallbacks
                /\ completed' = completed \cup {"recommendation", "assembly"}
                /\ inflight' = inflight \ {"recommendation"}
                /\ waited' = 0
                /\ success' = TRUE
                /\ message' = "Successfully analyzed"
                /\ pc' = "done"
                /\ UNCHANGED << dataset, profile, interpretation, plan, kpis, charts, calls >>
    /\ UNCHANGED << request, channel >>
    /\ UNCHANGED browser
    /\ UNCHANGED pages

\* Time passes while a reasoning call is awaited; no timeout is set on the call.
Tick ==
    /\ inflight # {}
    /\ waited < MaxWait
    /\ waited' = waited + 1
    /\ UNCHANGED << pc, request, channel, outputs, success, message, fallbacks, completed,
                    calls, inflight, lastKind >>
    /\ UNCHANGED browser
    /\ UNCHANGED pages

Next ==
    \/ \E payload \in Payloads, ch \in Channels : Upload(payload, ch)
    \/ \E kind \in ResponseKinds :
         \E body \in IF kind = "usable" THEN InterpretationAnswers(profile) ELSE {NoInterpretation} :
            InterpretationReturns(kind, body)
    \/ \E kind \in ResponseKinds :
         \E body \in IF kind = "usable" THEN PlanAnswers ELSE {NoPlan} :
            DesignReturns(kind, body)
    \/ \E kind \in ResponseKinds :
         \E body \in IF kind = "usable" THEN RecommendationAnswers ELSE {<<>>} :
            RecommendationsReturn(kind, body)
    \/ Tick

Spec == Init /\ [][Next]_vars

(***************************************************************************)
(* The interpreter on its own, over every dataset that can be profiled,    *)
(* the one without columns included.                                       *)
(***************************************************************************)
InitInterpreter ==
    /\ pc = "profiled"
    /\ request = [parses |-> FALSE, dataset |-> NoDataset]
    /\ channel = "seo"
    /\ dataset \in Datasets
    /\ profile = Profile(dataset)
    /\ interpretation = NoInterpretation
    /\ plan = NoPlan
    /\ kpis = <<>>
    /\ charts = <<>>
    /\ recommendations = <<>>
    /\ success = FALSE
    /\ message = ""
    /\ fallbacks = {}
    /\ completed = {"profiling"}
    /\ calls = <<"interpretation">>
    /\ inflight = {"interpretation"}
    /\ waited = 0
    /\ lastKind = "none"
    /\ BrowserClosed
    /\ PagesClosed

Interpret(kind, body) ==
    /\ pc = "profiled"
    /\ lastKind' = kind
    /\ LET r == InterpretSchema(profile, kind, body)
       IN  /\ pc' = IF r.raised THEN "error" ELSE "interpreted"
           /\ interpretation' = IF r.raised THEN interpretation ELSE r.value
           /\ fallbacks' = IF r.fallback THEN {"interpretation"} ELSE {}
    /\ completed' = completed \cup {"interpretation"}
    /\ inflight' = {}
    /\ UNCHANGED << request, channel, dataset, profile, plan, kpis, charts, recommendations,
                    success, message, calls, waited >>
    /\ UNCHANGED browser
    /\ UNCHANGED pages

NextInterpreter ==
    \E kind \in ResponseKinds :
       \E body \in IF kind = "usable" THEN InterpretationAnswers(profile) ELSE {NoInterpretation} :
          Interpret(kind, body)

SpecInterpreter == InitInterpreter /\ [][NextInterpreter]_vars

(***************************************************************************)
(* The plan executor on its own, over the datasets of the worked example   *)
(* (date, clicks) in every row order and over rankings of more groups than *)
(* a chart shows.                                                          *)
(***************************************************************************)
MaxExampleRows == 3
MaxGroups == 12

ExampleRowPool ==
    { [date |-> Text("2024-01-01"), clicks |-> Num(150)],
      [date |-> Text("2024-01-02"), clicks |-> Num(175)],
      [date |-> Text("2024-01-03"), clicks |-> Num(160)],
      [date |-> Text("2024-01-01"), clicks |-> Num(40)] }

\* The rows of the example in every order, each row at most once.
ExampleDatasets ==
    { [header |-> <<"date", "clicks">>, rows |-> r] :
        r \in {q \in SeqsUpTo(ExampleRowPool, MaxExampleRows) :
                 \A i, j \in DOMAIN q : q[i] = q[j] => i = j} }

KeywordNames ==
    << "k01", "k02", "k03", "k04", "k05", "k06", "k07", "k08", "k09", "k10",
       "k11", "k12", "k13", "k14" >>

\* One row per keyword; the clicks are a ranking of the keywords chosen by
\* `m` (all equal for m = 0).
RankingDatasets ==
    { [header |-> <<"keyword", "clicks">>,
       rows |-> [i \in 1..n |-> [keyword |-> Text(KeywordNames[i]),
                                 clicks |-> Num(((i * m) % 17) + 1)]]] :
        n \in (TopN - 1)..MaxGroups, m \in 0..6 }

ExecutorDatasets == ExampleDatasets \cup RankingDatasets

ExecutorKpiPool ==
    << KPISpec("Total Clicks", "sum", <<"clicks">>, "number"),
       KPISpec("Total Revenue", "sum", <<UnknownColumn>>, "currency") >>

ExecutorChartPool ==
    << ChartSpec("Clicks Over Time", "line", "date", "clicks", "date", "sum"),
       ChartSpec("Top Keywords by Clicks", "bar", "keyword", "clicks", "keyword", "sum"),
       ChartSpec("Keyword Share", "pie", "keyword", "clicks", "keyword", "sum"),
       ChartSpec("Clicks by Keyword", "line", "keyword", "clicks", "keyword", "sum") >>

ExecutorPlans ==
    { [kpis |-> k, charts |-> c] :
        k \in SubSeqsUpTo(ExecutorKpiPool, MaxKpis), c \in SubSeqsUpTo(ExecutorChartPool, MaxCharts) }

InitExecutor ==
    /\ pc = "planned"
    /\ request = [parses |-> FALSE, dataset |-> NoDataset]
    /\ channel = "seo"
    /\ dataset \in ExecutorDatasets
    /\ profile = Profile(dataset)
    /\ interpretation \in
          { HeuristicInterpretation(Profile(dataset)),
            [HeuristicInterpretation(Profile(dataset)) EXCEPT !.primary_date_column = NoColumn] }
    /\ plan \in ExecutorPlans
    /\ kpis = <<>>
    /\ charts = <<>>
    /\ recommendations = <<>>
    /\ success = FALSE
    /\ message = ""
    /\ fallbacks = {}
    /\ completed = {"profiling", "interpretation", "design"}
    /\ calls = <<"interpretation", "design">>
    /\ inflight = {}
    /\ waited = 0
    /\ lastKind = "usable"
    /\ BrowserClosed
    /\ PagesClosed

\* Step 4 on the plan.
Execute ==
    /\ pc = "planned"
    /\ kpis' = ExecuteKpis(dataset, plan)
    /\ charts' = ExecuteCharts(dataset, plan, interpretation.primary_date_column)
    /\ completed' = completed \cup {"execution"}
    /\ pc' = "executed"
    /\ UNCHANGED << request, channel, dataset, profile, interpretation, plan, recommendations,
                    success, message, fallbacks, calls, inflight, waited, lastKind >>
    /\ UNCHANGED browser
    /\ UNCHANGED pages

\* Faulty variant: the executor keeps its chart list between runs and appends
\* the results of a run to it.
ExecuteAgain_accumulates ==
    /\ pc = "executed"
    /\ kpis' = ExecuteKpis(dataset, plan)
    /\ charts' = RunCharts(dataset, plan.charts, interpretation.primary_date_column, charts)
    /\ pc' = "executed again"
    /\ UNCHANGED << request, channel, dataset, profile, interpretation, plan, recommendations,
                    success, message, fallbacks, completed, calls, inflight, waited, lastKind >>
    /\ UNCHANGED browser
    /\ UNCHANGED pages

\* Step 4 once more on the same dataset and plan.
ExecuteAgain ==
    /\ pc = "executed"
    /\ kpis' = ExecuteKpis(dataset, plan)
    /\ charts' = ExecuteCharts(dataset, plan, interpretation.primary_date_column)
    /\ pc' = "executed again"
    /\ UNCHANGED << request, channel, dataset, profile, interpretation, plan, recommendations,
                    success, message, fallbacks, completed, calls, inflight, waited, lastKind >>
    /\ UNCHANGED browser
    /\ UNCHANGED pages

NextExecutor == Execute \/ ExecuteAgain

SpecExecutor == InitExecutor /\ [][NextExecutor]_vars

(***************************************************************************)
(* Several requests in the handler at once.  Each variable holds, for each *)
(* invocation, what the handler's local of that name holds.                *)
(***************************************************************************)
MaxInvocations == 2

Invocations == 1..MaxInvocations

ConcurrentPayloads ==
    { [parses |-> FALSE, dataset |-> NoDataset],
      [parses |-> TRUE,
       dataset |-> [header |-> <<"date", "clicks">>,
                    rows |-> << [date |-> Text("2024-01-01"), clicks |-> Num(150)] >>]],
      [parses |-> TRUE,
       dataset |-> [header |-> <<"keyword", "date", "clicks">>,
                    rows |-> << [keyword |-> Text("crm"), date |-> Text("2024-01-02"), clicks |-> Num(175)],
                                [keyword |-> Text("seo"), date |-> Text("2024-01-01"), clicks |-> Num(160)] >>]] }

ConcurrentKinds == {"usable", "unavailable"}

ConcurrentPlans == { [kpis |-> <<KpiPool[3]>>, charts |-> <<ChartPool[1]>>] }

\* Faulty variant: the name is one module-level object that all requests
\* assign to.
Only_shared(f, i, v) == [j \in DOMAIN f |-> v]

\* An assignment to a local of invocation i.
Only(f, i, v) == [f EXCEPT ![i] = v]

InitConcurrent ==
    /\ pc = [i \in Invocations |-> "idle"]
    /\ request = [i \in Invocations |-> [parses |-> FALSE, dataset |-> NoDataset]]
    /\ channel = [i \in Invocations |-> "seo"]
    /\ dataset = [i \in Invocations |-> NoDataset]
    /\ profile = [i \in Invocations |-> NoProfile]
    /\ interpretation = [i \in Invocations |-> NoInterpretation]
    /\ plan = [i \in Invocations |-> NoPlan]
    /\ kpis = [i \in Invocations |-> <<>>]
    /\ charts = [i \in Invocations |-> <<>>]
    /\ recommendations = [i \in Invocations |-> <<>>]
    /\ success = [i \in Invocations |-> FALSE]
    /\ message = [i \in Invocations |-> ""]
    /\ fallbacks = [i \in Invocations |-> {}]
    /\ completed = [i \in Invocations |-> {}]
    /\ calls = [i \in Invocations |-> <<>>]
    /\ inflight = [i \in Invocations |-> {}]
    /\ waited = [i \in Invocations |-> 0]
    /\ lastKind = [i \in Invocations |-> "none"]
    /\ BrowserClosed
    /\ PagesClosed

ConcurrentUpload(i, payload, ch) ==
    /\ pc[i] = "idle"
    /\ request' = Only(request, i, payload)
    /\ channel' = Only(channel, i, ch)
    /\ IF ~Loadable(payload)
       THEN /\ pc' = Only(pc, i, "failed")
            /\ success' = Only(success, i, FALSE)
            /\ message' = Only(message, i, "Failed to parse CSV")
            /\ UNCHANGED << outputs, fallbacks, completed, calls, inflight, waited, lastKind >>
       ELSE /\ dataset' = Only(dataset, i, payload.dataset)
            /\ profile' = Only(profile, i, Profile(payload.dataset))
            /\ completed' = Only(completed, i, {"profiling"})
            /\ calls' = Only(calls, i, CallsAfter("profiling"))
            /\ inflight' = Only(inflight, i, Range(CallsAfter("profiling")))
            /\ pc' = Only(pc, i, "interpreting")
            /\ UNCHANGED << interpretation, plan, kpis, charts, recommendations, success,
                            message, fallbacks, waited, lastKind >>
    /\ UNCHANGED browser
    /\ UNCHANGED pages

ConcurrentInterpretationReturns(i, kind, body) ==
    /\ pc[i] = "interpreting"
    /\ LET r == InterpretSchema(profile[i], kind, body)
       IN  /\ interpretation' = Only(interpretation, i, r.value)
           /\ fallbacks' = Only(fallbacks, i, IF r.fallback THEN fallbacks[i] \cup {"interpretation"}
                                              ELSE fallbacks[i])
    /\ lastKind' = Only(lastKind, i, kind)
    /\ completed' = Only(completed, i, completed[i] \cup {"interpretation"})
    /\ calls' = Only(calls, i, calls[i] \o CallsAfter("interpretation"))
    /\ inflight' = Only(inflight, i, Range(CallsAfter("interpretation")))
    /\ pc' = Only(pc, i, "designing")
    /\ UNCHANGED << request, channel, dataset, profile, plan, kpis, charts, recommendations,
                    success, message, waited >>
    /\ UNCHANGED browser
    /\ UNCHANGED pages

ConcurrentDesignReturns(i, kind, body) ==
    /\ pc[i] = "designing"
    /\ LET r == DesignPlan(profile[i], interpretation[i], kind, body)
       IN  /\ plan' = Only(plan, i, r.value)
           /\ kpis' = Only(kpis, i, ExecuteKpis(dataset[i], r.value))
           /\ charts' = Only(charts, i, ExecuteCharts(dataset[i], r.value,
                                                      interpretation[i].primary_date_column))
           /\ fallbacks' = Only(fallbacks, i, IF r.fallback THEN fallbacks[i] \cup {"design"}
                                              ELSE fallbacks[i])
    /\ lastKind' = Only(lastKind, i, kind)
    /\ completed' = Only(completed, i, completed[i] \cup {"design", "execution"})
    /\ calls' = Only(calls, i, calls[i] \o CallsAfter("execution"))
    /\ inflight' = Only(inflight, i, Range(CallsAfter("execution")))
    /\ pc' = Only(pc, i, "recommending")
    /\ UNCHANGED << request, channel, dataset, profile, interpretation, recommendations,
                    success, message, waited >>
    /\ UNCHANGED browser
    /\ UNCHANGED pages

ConcurrentRecommendationsReturn(i, kind, body) ==
    /\ pc[i] = "recommending"
    /\ LET r == GenerateRecommendations(channel[i], kind, body)
       IN  /\ recommendations' = Only(recommendations, i, r.value)
           /\ fallbacks' = Only(fallbacks, i, IF r.fallback THEN fallbacks[i] \cup {"recommendation"}
                                              ELSE fallbacks[i])
    /\ lastKind' = Only(lastKind, i, kind)
    /\ completed' = Only(completed, i, completed[i] \cup {"recommendation", "assembly"})
    /\ inflight' = Only(inflight, i, {})
    /\ success' = Only(success, i, TRUE)
    /\ message' = Only(message, i, "Successfully analyzed")
    /\ pc' = Only(pc, i, "done")
    /\ UNCHANGED << request, channel, dataset, profile, interpretation, plan, kpis, charts,
                    calls, waited >>
    /\ UNCHANGED browser
    /\ UNCHANGED pages

NextConcurrent ==
    \E i \in Invocations :
       \/ \E payload \in ConcurrentPayloads : ConcurrentUpload(i, payload, "seo")
       \/ \E kind \in ConcurrentKinds :
            \E body \in IF kind = "usable" THEN InterpretationAnswers(profile[i])
                        ELSE {NoInterpretation} :
               ConcurrentInterpretationReturns(i, kind, body)
       \/ \E kind \in ConcurrentKinds :
            \E body \in IF kind = "usable" THEN ConcurrentPlans ELSE {NoPlan} :
               ConcurrentDesignReturns(i, kind, body)
       \/ \E kind \in ConcurrentKinds :
            \E body \in IF kind = "usable" THEN RecommendationAnswers ELSE {<<>>} :
               ConcurrentRecommendationsReturn(i, kind, body)

SpecConcurrent == InitConcurrent /\ [][NextConcurrent]_vars

(***************************************************************************)
(* The frontend: AuthProvider (initializeAuth, verifyToken, login, logout) *)
(* and the authenticated API helpers.                                      *)
(***************************************************************************)
MaxRequests == 3

StoredToken == "token-of-last-session"
IssuedToken == "token-of-this-login"

Alice == [username |-> "alice"]
AliceNow == [username |-> "alice", full_name |-> "Alice A."]
Users == {Alice, AliceNow}

\* JSON.stringify of a User.
UserJson(u) ==
    CASE u = Alice -> "{\"username\":\"alice\"}"
      [] u = AliceNow -> "{\"username\":\"alice\",\"full_name\":\"Alice A.\"}"
      [] OTHER -> "null"

\* JSON.parse of a stored string: the User, or a SyntaxError.
ParseUser(text) ==
    CASE text = "{\"username\":\"alice\"}" -> [ok |-> TRUE, value |-> Alice]
      [] text = "{\"username\":\"alice\",\"full_name\":\"Alice A.\"}" -> [ok |-> TRUE, value |-> AliceNow]
      [] text = "null" -> [ok |-> TRUE, value |-> NullUser]
      [] OTHER -> [ok |-> FALSE, value |-> NullUser]

\* A string is truthy when it is neither null nor empty.
Truthy(text) == text # NullString /\ text # ""

FetchOutcomes == {"ok", "rejected", "unreachable"}

Statuses == {200, 401, 500}

Helpers ==
    { "authenticatedFetch", "authenticatedPost", "authenticatedPut", "authenticatedDelete",
      "authenticatedFileUpload" }

\* A request as it was sent, and how it ended.
Request(url, by, auth) == [url |-> url, by |-> by, auth |-> auth, outcome |-> "pending"]

\* The log with the pending request of `by` ended as `outcome`.
Ended(log, by, outcome) ==
    [i \in DOMAIN log |->
        IF log[i].by = by /\ log[i].outcome = "pending"
        THEN [log[i] EXCEPT !.outcome = outcome]
        ELSE log[i]]

InitBrowser ==
    /\ pc = "idle"
    /\ request = [parses |-> FALSE, dataset |-> NoDataset]
    /\ channel = "seo"
    /\ dataset = NoDataset
    /\ profile = NoProfile
    /\ interpretation = NoInterpretation
    /\ plan = NoPlan
    /\ kpis = <<>>
    /\ charts = <<>>
    /\ recommendations = <<>>
    /\ success = FALSE
    /\ message = ""
    /\ fallbacks = {}
    /\ completed = {}
    /\ calls = <<>>
    /\ inflight = {}
    /\ waited = 0
    /\ lastKind = "none"
    /\ isAuthenticated = FALSE
    /\ user = NullUser
    /\ token = NullString
    /\ isLoading = TRUE
    /\ error = NullString
    /\ localStorage \in
          { EmptyStorage,
            [EmptyStorage EXCEPT ![TOKEN_KEY] = StoredToken, ![USER_KEY] = UserJson(Alice)] }
    /\ location = "/"
    /\ authPc = "unmounted"
    /\ locals = NoLocals
    /\ apiPc = "idle"
    /\ apiOutcome = NoOutcome
    /\ network = <<>>
    /\ PagesClosed

\* Faulty variant: the user record stays in localStorage.
ClearAuthData_keepsUserRecord ==
    /\ token' = NullString
    /\ user' = NullUser
    /\ isAuthenticated' = FALSE
    /\ localStorage' = [localStorage EXCEPT ![TOKEN_KEY] = NullString]

\* clearAuthData(): the three setters and the two removeItem.
ClearAuthData ==
    /\ token' = NullString
    /\ user' = NullUser
    /\ isAuthenticated' = FALSE
    /\ localStorage' = [localStorage EXCEPT ![TOKEN_KEY] = NullString, ![USER_KEY] = NullString]

\* The effect on mount, initializeAuth up to its await: with a token and a
\* user stored it calls verifyToken, else it ends.
Mount ==
    /\ authPc = "unmounted"
    /\ LET storedToken == localStorage[TOKEN_KEY]
           storedUser == localStorage[USER_KEY]
       IN  IF Truthy(storedToken) /\ Truthy(storedUser)
           THEN /\ locals' = [locals EXCEPT !.storedToken = storedToken, !.storedUser = storedUser]
                /\ network' = Append(network, Request("/users/me", "verifyToken", storedToken))
                /\ authPc' = "verifying"
                /\ UNCHANGED isLoading
           ELSE /\ isLoading' = FALSE
                /\ authPc' = "ready"
                /\ UNCHANGED << locals, network >>
    /\ UNCHANGED << isAuthenticated, user, token, error, localStorage, location, apiPc, apiOutcome >>
    /\ UNCHANGED handler
    /\ UNCHANGED pages

\* Faulty variant: verifyToken answers true whatever the fetch did.
verifyToken_alwaysValid(outcome) == TRUE

\* verifyToken's answer: response.ok, and false when the fetch threw.
verifyToken(outcome) == outcome = "ok"

\* Faulty variant: the finally blocks are skipped when the fetch threw.
LoadingAfter_stuckOnThrow(outcome) == outcome = "unreachable"

\* The finally blocks of initializeAuth and login: setIsLoading(false),
\* however the function ended.
LoadingAfter(outcome) == FALSE

\* verifyToken's fetch ends, and initializeAuth with it.
VerifyReturns(outcome, userData) ==
    /\ authPc = "verifying"
    /\ network' = Ended(network, "verifyToken", outcome)
    /\ IF verifyToken(outcome)
       THEN LET parsed == ParseUser(locals.storedUser)
            IN  IF parsed.ok
                THEN /\ token' = locals.storedToken
                     /\ user' = parsed.value
                     /\ isAuthenticated' = TRUE
                     /\ UNCHANGED localStorage
                ELSE ClearAuthData
       ELSE ClearAuthData
    /\ isLoading' = LoadingAfter(outcome)
    /\ authPc' = "ready"
    /\ UNCHANGED << error, location, locals, apiPc, apiOutcome >>
    /\ UNCHANGED handler
    /\ UNCHANGED pages

\* Faulty variant: a failed login leaves the session in place.
LoginFails_keepsSession(msg) ==
    /\ error' = msg
    /\ locals' = [locals EXCEPT !.thrown = msg]
    /\ UNCHANGED << token, user, isAuthenticated, localStorage >>

\* The catch block of login: setError(err.message), clearAuthData(),
\* throw err.
LoginFails(msg) ==
    /\ error' = msg
    /\ ClearAuthData
    /\ locals' = [locals EXCEPT !.thrown = msg]

\* login(username, password) up to its first await.
Login ==
    /\ authPc = "ready"
    /\ Len(network) + 2 <= MaxRequests
    /\ error' = NullString
    /\ isLoading' = TRUE
    /\ network' = Append(network, Request("/token", "login", NullString))
    /\ authPc' = "login-token"
    /\ locals' = [locals EXCEPT !.thrown = NullString]
    /\ UNCHANGED << isAuthenticated, user, token, localStorage, location, apiPc, apiOutcome >>
    /\ UNCHANGED handler
    /\ UNCHANGED pages

\* The answer to POST /token.
LoginTokenReturns(outcome) ==
    /\ authPc = "login-token"
    /\ IF outcome = "ok"
       THEN /\ locals' = [locals EXCEPT !.access_token = IssuedToken]
            /\ network' = Append(Ended(network, "login", outcome),
                                 Request("/users/me", "login", IssuedToken))
            /\ authPc' = "login-user"
            /\ UNCHANGED << isAuthenticated, user, token, isLoading, error, localStorage >>
       ELSE /\ LoginFails(IF outcome = "rejected" THEN "Incorrect username or password"
                           ELSE "Failed to fetch")
            /\ isLoading' = LoadingAfter(outcome)
            /\ network' = Ended(network, "login", outcome)
            /\ authPc' = "ready"
    /\ UNCHANGED << location, apiPc, apiOutcome >>
    /\ UNCHANGED handler
    /\ UNCHANGED pages

\* The answer to login's GET /users/me.
LoginUserReturns(outcome, userData) ==
    /\ authPc = "login-user"
    /\ network' = Ended(network, "login", outcome)
    /\ IF outcome = "ok"
       THEN /\ token' = locals.access_token
            /\ user' = userData
            /\ isAuthenticated' = TRUE
            /\ localStorage' = [localStorage EXCEPT ![TOKEN_KEY] = locals.access_token,
                                                    ![USER_KEY] = UserJson(userData)]
            /\ UNCHANGED << error, locals >>
       ELSE LoginFails(IF outcome = "rejected" THEN "Failed to fetch user profile"
                       ELSE "Failed to fetch")
    /\ isLoading' = LoadingAfter(outcome)
    /\ authPc' = "ready"
    /\ UNCHANGED << location, apiPc, apiOutcome >>
    /\ UNCHANGED handler
    /\ UNCHANGED pages

\* logout(), called by the sidebar's button, which is on the page once
\* the loading screen is gone.
Logout ==
    /\ authPc # "unmounted"
    /\ ~isLoading
    /\ ClearAuthData
    /\ error' = NullString
    /\ UNCHANGED << isLoading, location, authPc, locals, apiPc, apiOutcome, network >>
    /\ UNCHANGED handler
    /\ UNCHANGED pages

\* The wrappers for POST, PUT and DELETE call authenticatedFetch.
Via(helper) ==
    IF helper = "authenticatedFileUpload" THEN "authenticatedFileUpload" ELSE "authenticatedFetch"

\* What a helper does with the response of its fetch: on 401 it removes the
\* stored token and user, sets the page's address and throws; any other
\* response it returns.
Handled(clear, href, result) == [clear |-> clear, href |-> href, result |-> result]

\* Faulty variant: the upload helper returns a 401 response like any other.
authenticatedFileUpload_returns401(status) ==
    Handled(FALSE, NullString, Outcome("returned", status, ""))

authenticatedFetch(status) ==
    IF status = 401
    THEN Handled(TRUE, "/login", Outcome("threw", status, "Authentication expired. Please login again."))
    ELSE Handled(FALSE, NullString, Outcome("returned", status, ""))

authenticatedFileUpload(status) ==
    IF status = 401
    THEN Handled(TRUE, "/login", Outcome("threw", status, "Authentication expired. Please login again."))
    ELSE Handled(FALSE, NullString, Outcome("returned", status, ""))

\* A component calls a helper: the helper reads the stored token and sends
\* the request.
ApiCall(helper) ==
    /\ authPc # "unmounted"
    /\ apiPc = "idle"
    /\ Len(network) < MaxRequests
    /\ network' = Append(network, Request("/api", helper, localStorage[TOKEN_KEY]))
    /\ apiPc' = helper
    /\ apiOutcome' = Outcome("pending", 0, "")
    /\ UNCHANGED << isAuthenticated, user, token, isLoading, error, localStorage, location,
                    authPc, locals >>
    /\ UNCHANGED handler
    /\ UNCHANGED pages

\* The response arrives.
ApiReturns(status) ==
    /\ apiPc # "idle"
    /\ LET h == IF Via(apiPc) = "authenticatedFileUpload" THEN authenticatedFileUpload(status)
                ELSE authenticatedFetch(status)
       IN  /\ localStorage' = IF h.clear
                              THEN [localStorage EXCEPT ![TOKEN_KEY] = NullString,
                                                        ![USER_KEY] = NullString]
                              ELSE localStorage
           /\ location' = IF h.href # NullString THEN h.href ELSE location
           /\ apiOutcome' = h.result
    /\ network' = Ended(network, apiPc, ToString(status))
    /\ apiPc' = "idle"
    /\ UNCHANGED << isAuthenticated, user, token, isLoading, error, authPc, locals >>
    /\ UNCHANGED handler
    /\ UNCHANGED pages

\* The fetch is rejected (the server cannot be reached): the helper throws
\* what fetch threw.
ApiFails ==
    /\ apiPc # "idle"
    /\ apiOutcome' = Outcome("threw", 0, "Failed to fetch")
    /\ network' = Ended(network, apiPc, "unreachable")
    /\ apiPc' = "idle"
    /\ UNCHANGED << isAuthenticated, user, token, isLoading, error, localStorage, location,
                    authPc, locals >>
    /\ UNCHANGED handler
    /\ UNCHANGED pages

NextBrowser ==
    \/ Mount
    \/ \E outcome \in FetchOutcomes, userData \in Users : VerifyReturns(outcome, userData)
    \/ Login
    \/ \E outcome \in FetchOutcomes : LoginTokenReturns(outcome)
    \/ \E outcome \in FetchOutcomes, userData \in Users : LoginUserReturns(outcome, userData)
    \/ Logout
    \/ \E helper \in Helpers : ApiCall(helper)
    \/ \E status \in Statuses : ApiReturns(status)
    \/ ApiFails

SpecBrowser == InitBrowser /\ [][NextBrowser]_vars

(***************************************************************************)
(* The Google sign-in: the login page's button (handleGoogleLogin) and the *)
(* callback page (AuthCallback, processCallback).                          *)
(***************************************************************************)
GoogleToken == "token-of-google-sign-in"

\* The queries the backend redirects to the callback page with.
CallbackParams ==
    { [token |-> GoogleToken, error |-> NullString],
      [token |-> NullString, error |-> "access_denied"],
      [token |-> GoogleToken, error |-> "access_denied"],
      NoParams }

\* How often the callback page did `what` since it was opened.
Count(log, what) == Cardinality({ i \in DOMAIN log : log[i] = what })

InitCallback ==
    /\ pc = "idle"
    /\ request = [parses |-> FALSE, dataset |-> NoDataset]
    /\ channel = "seo"
    /\ dataset = NoDataset
    /\ profile = NoProfile
    /\ interpretation = NoInterpretation
    /\ plan = NoPlan
    /\ kpis = <<>>
    /\ charts = <<>>
    /\ recommendations = <<>>
    /\ success = FALSE
    /\ message = ""
    /\ fallbacks = {}
    /\ completed = {}
    /\ calls = <<>>
    /\ inflight = {}
    /\ waited = 0
    /\ lastKind = "none"
    /\ isAuthenticated = FALSE
    /\ user = NullUser
    /\ token = NullString
    /\ isLoading = FALSE
    /\ error = NullString
    /\ localStorage = EmptyStorage
    /\ location = "/login"
    /\ authPc = "ready"
    /\ locals = NoLocals
    /\ apiPc = "idle"
    /\ apiOutcome = NoOutcome
    /\ network = <<>>
    /\ PagesClosed

\* The tabs and the backend, which the sign-in leaves alone.
TabsFrame ==
    /\ UNCHANGED << selectedChannel, file, isAnalyzing, analysisError, analysisResult,
                    uploads, tabRequest, tabError >>
    /\ UNCHANGED handler

\* What the callback page leaves alone: the AuthProvider and the tabs.
CallbackFrame ==
    /\ UNCHANGED << isAuthenticated, user, token, isLoading, error, authPc, locals, apiPc,
                    apiOutcome, network >>
    /\ TabsFrame

\* handleGoogleLogin: with the flag set it returns, else it sets the flag
\* and leaves for the backend's Google endpoint.
HandleGoogleLogin ==
    /\ location = "/login"
    /\ Len(network) < MaxRequests
    /\ IF Truthy(sessionStorage)
       THEN UNCHANGED << sessionStorage, location, timers >>
       ELSE /\ sessionStorage' = "true"
            /\ location' = "/login/google"
            /\ timers' = <<>>
    /\ UNCHANGED << localStorage, searchParams, hasProcessed, callbackError, processing,
                    callbackPc, events >>
    /\ CallbackFrame

\* The backend redirects to /auth/callback: the page loads and the
\* callback component mounts with fresh state.
Arrive(params) ==
    /\ location = "/login/google"
    /\ location' = "/auth/callback"
    /\ searchParams' = params
    /\ hasProcessed' = FALSE
    /\ callbackError' = ""
    /\ processing' = TRUE
    /\ callbackPc' = "mounted"
    /\ events' = <<>>
    /\ timers' = <<>>
    /\ UNCHANGED << localStorage, sessionStorage >>
    /\ CallbackFrame

\* The catch block of processCallback, and the two branches without a
\* token: the message, processing off, a navigation to /login in 3 s.
GiveUp(msg) ==
    /\ callbackError' = msg
    /\ processing' = FALSE
    /\ timers' = Append(timers, "/login")
    /\ callbackPc' = "waiting"

\* Faulty variant: the effect never finds the callback processed.
AlreadyProcessed_never(ref) == FALSE

\* The test at the head of the effect.
AlreadyProcessed(ref) == ref

\* The effect, processCallback up to its first await.  React runs it when
\* the component mounts, and in development a second time at once: before
\* the fetch is answered and before a timer fires.
CallbackEffect ==
    /\ \/ callbackPc = "mounted"
       \/ callbackPc = "fetching" /\ events = << "effect", "GET /users/me" >>
       \/ callbackPc = "waiting" /\ events = << "effect" >>
    /\ IF AlreadyProcessed(hasProcessed)
       THEN /\ events' = Append(events, "effect")
            /\ UNCHANGED << hasProcessed, callbackError, processing, timers, callbackPc >>
       ELSE IF Truthy(searchParams.error)
       THEN /\ GiveUp(searchParams.error)
            /\ events' = Append(events, "effect")
            /\ UNCHANGED hasProcessed
       ELSE IF Truthy(searchParams.token)
       THEN /\ hasProcessed' = TRUE
            /\ events' = events \o << "effect", "GET /users/me" >>
            /\ callbackPc' = "fetching"
            /\ UNCHANGED << callbackError, processing, timers >>
       ELSE /\ GiveUp("Invalid callback. Missing authentication token.")
            /\ events' = Append(events, "effect")
            /\ UNCHANGED hasProcessed
    /\ UNCHANGED << localStorage, location, searchParams, sessionStorage >>
    /\ CallbackFrame

\* The answer to the callback's GET /users/me.
ProfileReturns(outcome, userData) ==
    /\ callbackPc = "fetching"
    /\ IF outcome = "ok"
       THEN /\ localStorage' = [EmptyStorage EXCEPT ![TOKEN_KEY] = searchParams.token,
                                                    ![USER_KEY] = UserJson(userData)]
            /\ sessionStorage' = NullString
            /\ events' = Append(events, "write")
            /\ callbackPc' = "stored"
            /\ UNCHANGED << hasProcessed, callbackError, processing, timers >>
       ELSE /\ hasProcessed' = FALSE
            /\ GiveUp("Failed to complete sign in. Please try again.")
            /\ UNCHANGED << localStorage, sessionStorage, events >>
    /\ UNCHANGED << location, searchParams >>
    /\ CallbackFrame

\* The 200 ms are over: the callback reads back what it stored and sets
\* the timer of the hard navigation to /.
DelayEnds ==
    /\ callbackPc = "stored"
    /\ IF Truthy(localStorage[TOKEN_KEY]) /\ Truthy(localStorage[USER_KEY])
       THEN /\ timers' = Append(timers, "/")
            /\ callbackPc' = "waiting"
            /\ UNCHANGED << hasProcessed, callbackError, processing >>
       ELSE /\ hasProcessed' = FALSE
            /\ GiveUp("Failed to complete sign in. Please try again.")
    /\ UNCHANGED << localStorage, location, searchParams, sessionStorage, events >>
    /\ CallbackFrame

\* A timer fires: navigate('/login') leaves the callback page within the
\* application, window.location.href = '/' loads the application anew, its
\* AuthProvider in its initial state.
TimerFires ==
    /\ timers # <<>>
    /\ location' = Head(timers)
    /\ events' = Append(events, "navigate " \o Head(timers))
    /\ callbackPc' = "closed"
    /\ IF Head(timers) = "/"
       THEN /\ timers' = <<>>
            /\ isAuthenticated' = FALSE
            /\ user' = NullUser
            /\ token' = NullString
            /\ isLoading' = TRUE
            /\ error' = NullString
            /\ authPc' = "unmounted"
            /\ locals' = NoLocals
            /\ UNCHANGED << apiPc, apiOutcome, network >>
       ELSE /\ timers' = Tail(timers)
            /\ UNCHANGED << isAuthenticated, user, token, isLoading, error, authPc, locals,
                            apiPc, apiOutcome, network >>
    /\ UNCHANGED << localStorage, searchParams, hasProcessed, callbackError, processing,
                    sessionStorage >>
    /\ TabsFrame

\* ProtectedRoute: the dashboard of a visitor who is not authenticated is
\* replaced by the login page.
ProtectedRouteRedirects ==
    /\ location = "/"
    /\ authPc = "ready"
    /\ ~isLoading
    /\ ~isAuthenticated
    /\ location' = "/login"
    /\ UNCHANGED << localStorage, searchParams, hasProcessed, callbackError, processing,
                    callbackPc, sessionStorage, events, timers >>
    /\ CallbackFrame

NextCallback ==
    \/ HandleGoogleLogin
    \/ \E params \in CallbackParams : Arrive(params)
    \/ CallbackEffect
    \/ \E outcome \in FetchOutcomes, userData \in Users : ProfileReturns(outcome, userData)
    \/ DelayEnds
    \/ TimerFires
    \/ Mount
    \/ \E outcome \in FetchOutcomes, userData \in Users : VerifyReturns(outcome, userData)
    \/ Logout
    \/ ProtectedRouteRedirects

SpecCallback == InitCallback /\ [][NextCallback]_vars

(***************************************************************************)
(* The UploadCSVTab: channel and file selection, the Analyze button and    *)
(* handleAnalyze.                                                          *)
(***************************************************************************)
MaxAnalyses == 3

ChannelTypes == {"seo", "email"}
Files == {"seo.csv", "email.csv"}

SelectionError == "Please select a channel and upload a CSV file"
NoTokenError == "No authentication token found. Please log in."

\* Faulty variant: the lookup answers with the token of the session the
\* page was loaded with.
TokenLookup_remembered(storage) == StoredToken

\* The token the tab components send: auth_token, else the legacy key.
TokenLookup(storage) ==
    IF Truthy(storage[TOKEN_KEY]) THEN storage[TOKEN_KEY]
    ELSE IF Truthy(storage[LEGACY_TOKEN_KEY]) THEN storage[LEGACY_TOKEN_KEY]
    ELSE NullString

\* An analysis as it was started, and how it ended.  It sent a request
\* when it found a token.
Analysis(ch, f, auth) ==
    [channel_type |-> ch, file_name |-> f, auth |-> auth,
     outcome |-> IF Truthy(auth) THEN "pending" ELSE "no token"]

InFlight(log) == { i \in DOMAIN log : log[i].outcome = "pending" }

\* Faulty variant: the button stays enabled during an analysis.
Disabled_ignoresAnalyzing(ch, f, analyzing) == ~Truthy(ch) \/ ~Truthy(f)

\* The Analyze button's disabled attribute.
Disabled(ch, f, analyzing) == ~Truthy(ch) \/ ~Truthy(f) \/ analyzing

\* The test at the head of handleAnalyze.
NothingSelected(ch, f) == ~Truthy(ch) \/ ~Truthy(f)

\* The error the tab shows after a click on the Analyze button, were it
\* clicked now, and whether the click sends a request.
ErrorAfterClick ==
    IF Disabled(selectedChannel, file, isAnalyzing) THEN analysisError
    ELSE IF NothingSelected(selectedChannel, file) THEN SelectionError
    ELSE IF ~Truthy(TokenLookup(localStorage)) THEN NoTokenError
    ELSE NullString

ClickSends ==
    /\ ~Disabled(selectedChannel, file, isAnalyzing)
    /\ ~NothingSelected(selectedChannel, file)
    /\ Truthy(TokenLookup(localStorage))

\* Faulty variant: handleAnalyze leaves the previous result in place.
ResultAtStart_kept(result) == result

\* handleAnalyze's setAnalysisResult(null) before the request.
ResultAtStart(result) == NoResult

InitUpload ==
    /\ pc = "idle"
    /\ request = [parses |-> FALSE, dataset |-> NoDataset]
    /\ channel = "seo"
    /\ dataset = NoDataset
    /\ profile = NoProfile
    /\ interpretation = NoInterpretation
    /\ plan = NoPlan
    /\ kpis = <<>>
    /\ charts = <<>>
    /\ recommendations = <<>>
    /\ success = FALSE
    /\ message = ""
    /\ fallbacks = {}
    /\ completed = {}
    /\ calls = <<>>
    /\ inflight = {}
    /\ waited = 0
    /\ lastKind = "none"
    /\ isAuthenticated = TRUE
    /\ user = Alice
    /\ token = StoredToken
    /\ isLoading = FALSE
    /\ error = NullString
    /\ localStorage \in
          { [EmptyStorage EXCEPT ![TOKEN_KEY] = StoredToken, ![USER_KEY] = UserJson(Alice)],
            EmptyStorage }
    /\ location = "/"
    /\ authPc = "ready"
    /\ locals = NoLocals
    /\ apiPc = "idle"
    /\ apiOutcome = NoOutcome
    /\ network = <<>>
    /\ PagesClosed

\* What the UploadCSVTab leaves alone.
UploadFrame ==
    /\ UNCHANGED << searchParams, hasProcessed, callbackError, processing, callbackPc,
                    sessionStorage, events, timers, tabRequest, tabError >>
    /\ UNCHANGED browser
    /\ UNCHANGED handler

\* The channel select: setSelectedChannel.
SelectChannel(ch) ==
    /\ selectedChannel' = ch
    /\ UNCHANGED << file, isAnalyzing, analysisError, analysisResult, uploads >>
    /\ UploadFrame

\* handleFileChange: setFile and setError(null).
HandleFileChange(f) ==
    /\ file' = f
    /\ analysisError' = NullString
    /\ UNCHANGED << selectedChannel, isAnalyzing, analysisResult, uploads >>
    /\ UploadFrame

\* handleDrop: setFile.
HandleDrop(f) ==
    /\ file' = f
    /\ UNCHANGED << selectedChannel, isAnalyzing, analysisError, analysisResult, uploads >>
    /\ UploadFrame

\* A click on the Analyze button: nothing when the button is disabled,
\* else handleAnalyze up to its await, or to its end when it sends nothing.
ClickAnalyze ==
    /\ Len(uploads) < MaxAnalyses
    /\ IF Disabled(selectedChannel, file, isAnalyzing)
       THEN UNCHANGED << isAnalyzing, analysisError, analysisResult, uploads >>
       ELSE IF NothingSelected(selectedChannel, file)
       THEN /\ analysisError' = SelectionError
            /\ UNCHANGED << isAnalyzing, analysisResult, uploads >>
       ELSE /\ analysisResult' = ResultAtStart(analysisResult)
            /\ analysisError' = ErrorAfterClick
            /\ isAnalyzing' = ClickSends
            /\ uploads' = Append(uploads,
                                 Analysis(selectedChannel, file, TokenLookup(localStorage)))
    /\ UNCHANGED << selectedChannel, file >>
    /\ UploadFrame

\* The answer to the dynamic-analysis request, and handleAnalyze's end.
AnalysisReturns(outcome) ==
    /\ \E i \in InFlight(uploads) :
          /\ uploads' = [uploads EXCEPT ![i].outcome = outcome]
          /\ IF outcome = "ok"
             THEN /\ analysisResult' = [of |-> i, channel_type |-> uploads[i].channel_type,
                                        file_name |-> uploads[i].file_name]
                  /\ UNCHANGED analysisError
             ELSE /\ analysisError' = IF outcome = "rejected" THEN "Analysis failed: Bad Request"
                                      ELSE "Failed to fetch"
                  /\ UNCHANGED analysisResult
    /\ isAnalyzing' = FALSE
    /\ UNCHANGED << selectedChannel, file >>
    /\ UploadFrame

NextUpload ==
    \/ \E ch \in ChannelTypes : SelectChannel(ch)
    \/ \E f \in Files : HandleFileChange(f)
    \/ \E f \in Files : HandleDrop(f)
    \/ ClickAnalyze
    \/ \E outcome \in FetchOutcomes : AnalysisReturns(outcome)

SpecUpload == InitUpload /\ [][NextUpload]_vars

(***************************************************************************)
(* A session on the dashboard: the tabs' requests beside login, logout and *)
(* the API helpers.                                                        *)
(***************************************************************************)
InitSession ==
    /\ pc = "idle"
    /\ request = [parses |-> FALSE, dataset |-> NoDataset]
    /\ channel = "seo"
    /\ dataset = NoDataset
    /\ profile = NoProfile
    /\ interpretation = NoInterpretation
    /\ plan = NoPlan
    /\ kpis = <<>>
    /\ charts = <<>>
    /\ recommendations = <<>>
    /\ success = FALSE
    /\ message = ""
    /\ fallbacks = {}
    /\ completed = {}
    /\ calls = <<>>
    /\ inflight = {}
    /\ waited = 0
    /\ lastKind = "none"
    /\ isAuthenticated = TRUE
    /\ user = Alice
    /\ token = StoredToken
    /\ isLoading = FALSE
    /\ error = NullString
    /\ localStorage = [EmptyStorage EXCEPT ![TOKEN_KEY] = StoredToken,
                                           ![USER_KEY] = UserJson(Alice)]
    /\ location = "/"
    /\ authPc = "ready"
    /\ locals = NoLocals
    /\ apiPc = "idle"
    /\ apiOutcome = NoOutcome
    /\ network = <<>>
    /\ selectedChannel = "seo"
    /\ file = "seo.csv"
    /\ isAnalyzing = FALSE
    /\ analysisError = NullString
    /\ analysisResult = NoResult
    /\ uploads = <<>>
    /\ searchParams = NoParams
    /\ hasProcessed = FALSE
    /\ callbackError = ""
    /\ processing = TRUE
    /\ callbackPc = "closed"
    /\ sessionStorage = NullString
    /\ events = <<>>
    /\ timers = <<>>
    /\ tabRequest = NoRequest
    /\ tabError = NullString

\* What the requests of the other tabs leave alone.
TabFrame ==
    /\ UNCHANGED << selectedChannel, file, isAnalyzing, analysisError, analysisResult,
                    uploads, searchParams, hasProcessed, callbackError, processing,
                    callbackPc, sessionStorage, events, timers >>
    /\ UNCHANGED browser
    /\ UNCHANGED handler

\* A tab's fetchRecommendations up to its await: without a token it throws
\* and the tab shows the message, with one it posts to
\* /api/recommendations/<channel> with the Authorization header.
FetchRecommendations ==
    /\ authPc = "ready"
    /\ tabRequest.outcome # "pending"
    /\ LET found == TokenLookup(localStorage)
       IN  IF ~Truthy(found)
           THEN /\ tabRequest' = TabRequest("fetchRecommendations", "", NullString, "not sent")
                /\ tabError' = NoTokenError
           ELSE /\ tabRequest' = TabRequest("fetchRecommendations", "/api/recommendations/seo",
                                            found, "pending")
                /\ UNCHANGED tabError
    /\ TabFrame

\* The overview tab's fetchOverviewData up to its await: a GET of
\* /api/overview with no headers.
FetchOverviewData ==
    /\ authPc = "ready"
    /\ tabRequest.outcome # "pending"
    /\ tabRequest' = TabRequest("fetchOverviewData", "/api/overview", NullString, "pending")
    /\ tabError' = NullString
    /\ TabFrame

\* The settings page's handleGenerateAnalysis up to its await: a POST of
\* the file to /api/upload/<channel> with no headers.
HandleGenerateAnalysis ==
    /\ authPc = "ready"
    /\ tabRequest.outcome # "pending"
    /\ tabRequest' = TabRequest("handleGenerateAnalysis", "/api/upload/seo", NullString, "pending")
    /\ tabError' = ""
    /\ TabFrame

\* The answer to a tab's request: the data, or the error the tab shows.
TabReturns(outcome) ==
    /\ tabRequest.outcome = "pending"
    /\ tabRequest' = [tabRequest EXCEPT !.outcome = outcome]
    /\ tabError' = IF outcome = "ok" THEN tabError
                   ELSE IF outcome = "rejected" THEN "HTTP error! status: 401"
                   ELSE "Failed to fetch"
    /\ TabFrame

\* The requests of a session, of the provider, the helpers and the upload
\* tab together, are bounded.
Budget(n) == Len(network) + Len(uploads) + n <= MaxRequests

SessionLogin == Budget(2) /\ Login

SessionApiCall == Budget(1) /\ ApiCall("authenticatedFetch")

SessionClickAnalyze == Budget(1) /\ ClickAnalyze

NextSession ==
    \/ SessionLogin
    \/ \E outcome \in FetchOutcomes : LoginTokenReturns(outcome)
    \/ \E outcome \in FetchOutcomes, userData \in Users : LoginUserReturns(outcome, userData)
    \/ Logout
    \/ SessionApiCall
    \/ \E status \in Statuses : ApiReturns(status)
    \/ ApiFails
    \/ FetchRecommendations
    \/ FetchOverviewData
    \/ HandleGenerateAnalysis
    \/ \E outcome \in FetchOutcomes : TabReturns(outcome)
    \/ SessionClickAnalyze
    \/ \E outcome \in FetchOutcomes : AnalysisReturns(outcome)

SpecSession == InitSession /\ [][NextSession]_vars

(***************************************************************************)
(* Properties.                                                             *)
(***************************************************************************)
Steps == {"profiling", "interpretation", "design", "execution", "recommendation", "assembly"}

FailureKinds == {"empty", "malformed", "unavailable"}

Executed == pc \in {"recommending", "done"}

PlanKpis == {plan.kpis[i] : i \in DOMAIN plan.kpis}

PlanCharts == {plan.charts[i] : i \in DOMAIN plan.charts}

ChartTitles == {charts[i].title : i \in DOMAIN charts}

MissingColumnKpiSkipped ==
    /\ Executed =>
          \A k \in PlanKpis :
             IF \E i \in DOMAIN k.columns_needed : k.columns_needed[i] \notin ColumnSet(dataset)
             THEN k.name \notin DOMAIN kpis
             ELSE ComputeKpi(dataset, k).status = "ok" =>
                     k.name \in DOMAIN kpis /\ kpis[k.name] = ComputeKpi(dataset, k).value
    /\ pc = "done" => success
    /\ pc # "error"

\* A plan with a KPI over the absent column "revenue" and a KPI over "clicks".
RevenueKpiSkippedClicksKept ==
    /\ pc = "done"
    /\ success
    /\ \E k \in PlanKpis : k.name = "Total Revenue" /\ UnknownColumn \notin ColumnSet(dataset)
    /\ "Total Clicks" \in DOMAIN kpis
    /\ "Total Revenue" \notin DOMAIN kpis

\* C3: when the design call fails or answers with text that does not parse,
\* the plan is the default plan: the KPI "Total Records" (count, number, no
\* columns) and one bar chart counting rows by the primary date column if
\* there is one, else by the first dimension column.
DesignFailureGivesDefaultPlan ==
    (pc = "recommending" /\ lastKind \in FailureKinds) =>
        /\ plan.kpis = << [name |-> "Total Records", calculation |-> "count",
                           columns_needed |-> <<>>, format |-> "number"] >>
        /\ Len(plan.charts) = 1
        /\ plan.charts[1].chart_type = "bar"
        /\ plan.charts[1].aggregation = "count"
        /\ LET dims == {i \in DOMAIN profile.column_names :
                          /\ profile.column_names[i] \in DOMAIN interpretation.columns
                          /\ interpretation.columns[profile.column_names[i]].type = "dimension"}
           IN  IF interpretation.primary_date_column # NoColumn
               THEN plan.charts[1].grouping = interpretation.primary_date_column
               ELSE dims # {} =>
                       plan.charts[1].grouping = profile.column_names[FirstIndex(dims)]

\* The design call failed on an interpretation without a date column.
DefaultPlanGroupedByFirstDimension ==
    /\ pc = "recommending"
    /\ lastKind = "unavailable"
    /\ interpretation.primary_date_column = NoColumn
    /\ Len(plan.charts) = 1
    /\ plan.charts[1].grouping = "keyword"

\* C4: the recommendations of a returned response have at least one entry:
\* the parsed list when the call gave a usable one, the fixed list of two or
\* three generic statements when the answer was empty, did not parse, or the
\* call failed.
RecommendationsNeverEmpty ==
    pc = "done" =>
        /\ Len(recommendations) >= 1
        /\ lastKind = "usable" => recommendations \in RecommendationAnswers
        /\ lastKind \in FailureKinds =>
              /\ Len(recommendations) \in {2, 3}
              /\ recommendations = GenericRecommendations(channel)
              /\ recommendations \notin RecommendationAnswers

\* The recommendation call answered with an empty list.
EmptyAnswerGotGenericList ==
    /\ pc = "done"
    /\ lastKind = "empty"
    /\ "recommendation" \in fallbacks
    /\ Len(recommendations) >= 2

MissingColumnChartSkipped ==
    /\ pc # "error"
    /\ Executed =>
          /\ \A ch \in PlanCharts :
                IF \/ ch.y_axis \notin ColumnSet(dataset)
                   \/ ch.x_axis # NoColumn /\ ch.x_axis \notin ColumnSet(dataset)
                   \/ ch.grouping # NoColumn /\ ch.grouping \notin ColumnSet(dataset)
                THEN ch.title \notin ChartTitles
                ELSE (ch.chart_type \in ChartTypes /\ ch.aggregation \in Aggregations) =>
                        \E i \in DOMAIN charts :
                           /\ charts[i].title = ch.title
                           /\ charts[i].data = ChartData(dataset, ch, interpretation.primary_date_column)
          /\ \A k \in PlanKpis :
                KpiOutcome(dataset, k).status = "ok" => k.name \in DOMAIN kpis

\* A plan with a chart over the absent column "revenue" next to a chart and a
\* KPI over "clicks".
RevenueChartSkippedOthersKept ==
    /\ pc = "done"
    /\ \E ch \in PlanCharts : ch.y_axis = UnknownColumn /\ ch.title \notin ChartTitles
    /\ \E i \in DOMAIN charts : Len(charts[i].data) > 0
    /\ "Total Clicks" \in DOMAIN kpis

ReasoningCallsSequential ==
    /\ Cardinality(inflight) <= 1
    /\ \E n \in 0..Len(Stages) : calls = SubSeq(Stages, 1, n)
    /\ "design" \in Range(calls) =>
          "interpretation" \in completed /\ "interpretation" \notin inflight
    /\ "recommendation" \in Range(calls) =>
          {"design", "execution"} \subseteq completed /\ "design" \notin inflight
    /\ inflight \subseteq Range(calls)

\* All three calls were made and the run ended.
ThreeCallsInOrder ==
    /\ pc = "done"
    /\ calls = <<"interpretation", "design", "recommendation">>
    /\ inflight = {}

\* C10 as stated: a reasoning call is never awaited for longer than the
\* timeout.
ReasoningCallEndsWithinTimeout ==
    inflight # {} => waited <= ReasoningTimeout

\* C11: a reasoning call is one attempt against the service: no stage's
\* request is sent twice, and a call that found the service unavailable has
\* ended in the stage's failure path, not in another attempt.
OneAttemptPerCall ==
    /\ \A s \in Range(Stages) : Cardinality({i \in DOMAIN calls : calls[i] = s}) <= 1
    /\ Len(calls) <= Len(Stages)
    /\ (pc = "designing" /\ lastKind = "unavailable") =>
          /\ "interpretation" \in fallbacks
          /\ calls = <<"interpretation", "design">>
    /\ (pc = "recommending" /\ lastKind = "unavailable") =>
          /\ "design" \in fallbacks
          /\ calls = <<"interpretation", "design", "recommendation">>
    /\ (pc = "done" /\ lastKind = "unavailable") => "recommendation" \in fallbacks

\* The interpretation call found the service unavailable and the handler has
\* gone on to the design call.
UnavailableNotRetried ==
    /\ pc = "designing"
    /\ lastKind = "unavailable"
    /\ calls = <<"interpretation", "design">>
    /\ inflight = {"design"}

\* The plan's chart that a chart result was computed from.
ChartOf(result) == CHOOSE ch \in PlanCharts : ch.title = result.title

GroupsOf(ch) == {LabelOf(dataset.rows[i][ch.grouping]) : i \in DOMAIN dataset.rows}

\* The aggregate of a chart's y axis over the rows of one group.
GroupValue(ch, label) ==
    Aggregate(ch.aggregation,
              NumericValues(Partition(dataset.rows, ch.grouping, label), ch.y_axis),
              Len(Partition(dataset.rows, ch.grouping, label))).value

\* The points are groups of the chart with their aggregates, each group once,
\* in descending order of value.
RankedPoints(ch, data) ==
    /\ \A i \in DOMAIN data : /\ data[i].label \in GroupsOf(ch)
                              /\ data[i].value = GroupValue(ch, data[i].label)
    /\ \A i, j \in DOMAIN data : i < j => /\ data[i].value >= data[j].value
                                          /\ data[i].label # data[j].label

\* The points are the ten groups of highest value.
TenHighest(ch, data) ==
    /\ Len(data) = 10
    /\ RankedPoints(ch, data)
    /\ \A g \in GroupsOf(ch) \ {data[i].label : i \in DOMAIN data} :
          GroupValue(ch, g) <= data[10].value

DateGroupsChronological ==
    pc \in {"executed", "executed again"} =>
        \A i \in DOMAIN charts :
           LET ch == ChartOf(charts[i])
               data == charts[i].data
           IN  (ch.grouping # NoColumn /\ ch.grouping = interpretation.primary_date_column) =>
                  /\ {data[j].label : j \in DOMAIN data} = GroupsOf(ch)
                  /\ Len(data) = Cardinality(GroupsOf(ch))
                  /\ \A j \in DOMAIN data : data[j].value = GroupValue(ch, data[j].label)
                  /\ \A j, k \in DOMAIN data : j < k => data[j].label # data[k].label
                  /\ \A j \in 1..(Len(data) - 1) :
                        /\ data[j].label = "2024-01-01" => data[j + 1].label \in {"2024-01-02", "2024-01-03"}
                        /\ data[j].label = "2024-01-02" => data[j + 1].label = "2024-01-03"
                        /\ data[j].label # "2024-01-03"
                  /\ (/\ Len(dataset.rows) = 3
                      /\ Range(dataset.rows) =
                            { [date |-> Text("2024-01-01"), clicks |-> Num(150)],
                              [date |-> Text("2024-01-02"), clicks |-> Num(175)],
                              [date |-> Text("2024-01-03"), clicks |-> Num(160)] }
                      /\ ch.aggregation = "sum" /\ ch.y_axis = "clicks")
                        => data = << [label |-> "2024-01-01", value |-> 150],
                                     [label |-> "2024-01-02", value |-> 175],
                                     [label |-> "2024-01-03", value |-> 160] >>

\* The rows of the example, latest first and the largest value in the middle.
ExampleRowsReversedChartChronological ==
    /\ pc = "executed"
    /\ Len(dataset.rows) = 3
    /\ dataset.rows[1] = [date |-> Text("2024-01-03"), clicks |-> Num(160)]
    /\ dataset.rows[2] = [date |-> Text("2024-01-02"), clicks |-> Num(175)]
    /\ dataset.rows[3] = [date |-> Text("2024-01-01"), clicks |-> Num(150)]
    /\ interpretation.primary_date_column = "date"
    /\ \E i \in DOMAIN charts :
          /\ charts[i].title = "Clicks Over Time"
          /\ charts[i].data = << [label |-> "2024-01-01", value |-> 150],
                                 [label |-> "2024-01-02", value |-> 175],
                                 [label |-> "2024-01-03", value |-> 160] >>

SumKpiIsColumnSum ==
    pc \in {"executed", "executed again"} =>
        \A k \in PlanKpis :
           (/\ k.calculation = "sum"
            /\ Len(k.columns_needed) = 1
            /\ k.columns_needed[1] \in ColumnSet(dataset)
            /\ \A i \in DOMAIN dataset.rows : dataset.rows[i][k.columns_needed[1]].t = "num")
              => /\ k.name \in DOMAIN kpis
                 /\ kpis[k.name] = SumSeq([i \in DOMAIN dataset.rows |->
                                              dataset.rows[i][k.columns_needed[1]].n])
                 /\ (/\ Len(dataset.rows) = 3
                     /\ {dataset.rows[i].clicks.n : i \in DOMAIN dataset.rows} = {150, 175, 160}
                     /\ k.name = "Total Clicks")
                       => kpis["Total Clicks"] = 485

\* The three rows of the example and the KPI "Total Clicks".
ExampleTotalClicks485 ==
    /\ pc = "executed"
    /\ dataset.header = <<"date", "clicks">>
    /\ Len(dataset.rows) = 3
    /\ {dataset.rows[i].clicks.n : i \in DOMAIN dataset.rows} = {150, 175, 160}
    /\ "Total Clicks" \in DOMAIN kpis
    /\ kpis["Total Clicks"] = 485

\* C16: the interpretation the handler holds, from the moment it is taken to
\* the response, speaks only of columns of the Profile: the keys of its column
\* mapping, its key metrics and its primary date column.
InterpretationNamesKnownColumnsOnly ==
    /\ DOMAIN interpretation.columns \subseteq Range(profile.column_names)
    /\ Range(interpretation.key_metrics) \subseteq Range(profile.column_names)
    /\ interpretation.primary_date_column \in Range(profile.column_names) \cup {NoColumn}

\* The answer that spoke of "revenue", a column the dataset does not have,
\* was taken without it and the run ended.
UnknownColumnDroppedFromAnswer ==
    /\ pc = "done"
    /\ "interpretation" \notin fallbacks
    /\ "date" \in Range(profile.column_names)
    /\ interpretation.primary_date_column = NoColumn
    /\ UnknownColumn \notin DOMAIN interpretation.columns
    /\ "clicks" \in DOMAIN interpretation.columns

\* What the handler holds for one invocation.
LocalsOf(i) ==
    << pc[i], request[i], channel[i], dataset[i], profile[i], interpretation[i], plan[i],
       kpis[i], charts[i], recommendations[i], success[i], message[i], fallbacks[i],
       completed[i], calls[i], lastKind[i] >>

\* What invocation i holds comes from its own request and from the answers to
\* its own calls.
OwnInputsOnly(i) ==
    /\ pc[i] \in {"interpreting", "designing", "recommending", "done"} =>
          /\ Loadable(request[i])
          /\ dataset[i] = request[i].dataset
          /\ profile[i] = Profile(request[i].dataset)
    /\ pc[i] \in {"designing", "recommending", "done"} =>
          IF "interpretation" \in fallbacks[i]
          THEN interpretation[i] = HeuristicInterpretation(Profile(request[i].dataset))
          ELSE \E b \in InterpretationAnswers(Profile(request[i].dataset)) :
                  interpretation[i] = KnownColumnsOnly(Profile(request[i].dataset), b)
    /\ pc[i] \in {"recommending", "done"} =>
          /\ IF "design" \in fallbacks[i]
             THEN plan[i] = DefaultPlan(Profile(request[i].dataset), interpretation[i])
             ELSE plan[i] \in ConcurrentPlans
          /\ kpis[i] = ExecuteKpis(request[i].dataset, plan[i])
          /\ charts[i] = ExecuteCharts(request[i].dataset, plan[i],
                                       interpretation[i].primary_date_column)
    /\ pc[i] = "done" =>
          /\ success[i]
          /\ IF "recommendation" \in fallbacks[i]
             THEN recommendations[i] = GenericRecommendations(channel[i])
             ELSE recommendations[i] \in RecommendationAnswers
    /\ pc[i] = "failed" => ~Loadable(request[i]) /\ dataset[i] = NoDataset
    /\ pc[i] = "idle" => dataset[i] = NoDataset /\ kpis[i] = <<>>

HelperGot401 ==
    /\ apiPc # "idle"
    /\ \E i \in DOMAIN network :
          /\ network[i].by = apiPc
          /\ network[i].outcome = "pending"
          /\ network'[i].outcome = "401"

\* C18: whenever one of the authenticated helpers (authenticatedFetch, its
\* POST, PUT and DELETE wrappers, authenticatedFileUpload) receives status
\* 401, the stored token and user are removed, the page's address becomes
\* /login and the call throws; a helper never returns a 401 response.
Helper401ClearsRedirectsThrows ==
    /\ [](apiOutcome.kind = "returned" => apiOutcome.status # 401)
    /\ [][HelperGot401 =>
            /\ localStorage'[TOKEN_KEY] = NullString
            /\ localStorage'[USER_KEY] = NullString
            /\ location' = "/login"
            /\ apiOutcome'.kind = "threw"
            /\ apiOutcome'.status = 401]_vars

\* C18 witness: a helper sent the stored token, got 401, and the storage is
\* cleared, the address /login and the call failed.
UploadWithStoredTokenGot401 ==
    /\ \E i \in DOMAIN network :
          /\ network[i].by = "authenticatedFileUpload"
          /\ network[i].auth = StoredToken
          /\ network[i].outcome = "401"
    /\ apiOutcome = Outcome("threw", 401, "Authentication expired. Please login again.")
    /\ location = "/login"
    /\ localStorage = EmptyStorage

\* The verification request ended with `outcome`.
Verified(outcome) ==
    \E i \in DOMAIN network :
        /\ network[i].by = "verifyToken"
        /\ network[i].url = "/users/me"
        /\ network[i].outcome = outcome

\* The verification request is answered in this step.
VerificationEnds(outcomes) ==
    /\ authPc = "verifying"
    /\ \E i \in DOMAIN network :
          /\ network[i].by = "verifyToken"
          /\ network[i].outcome = "pending"
          /\ network'[i].outcome \in outcomes

\* C19: on load the stored token authenticates only once GET /users/me has
\* accepted it: until verification ends nobody is authenticated and the
\* stored token is the session's token only after a successful verification;
\* a successful verification logs the stored user in; a failed or thrown one
\* clears state and storage; with nothing stored no request is sent and
\* nobody is authenticated.
StoredTokenVerifiedBeforeUse ==
    /\ [](authPc \in {"unmounted", "verifying"} => ~isAuthenticated)
    /\ [](token = StoredToken => Verified("ok"))
    /\ [][VerificationEnds({"ok"}) =>
            /\ isAuthenticated'
            /\ token' = locals.storedToken
            /\ user' = ParseUser(locals.storedUser).value]_vars
    /\ [][VerificationEnds({"rejected", "unreachable"}) =>
            /\ ~isAuthenticated'
            /\ token' = NullString
            /\ user' = NullUser
            /\ localStorage' = EmptyStorage]_vars
    /\ [][(authPc = "unmounted" /\ ~(Truthy(localStorage[TOKEN_KEY]) /\ Truthy(localStorage[USER_KEY])))
            => (network' = network /\ ~isAuthenticated' /\ authPc' = "ready")]_vars

\* C19 witness: the stored session was verified and restored.
StoredSessionRestored ==
    /\ Verified("ok")
    /\ isAuthenticated
    /\ token = StoredToken
    /\ user = Alice
    /\ localStorage[TOKEN_KEY] = StoredToken

\* Nothing of a session is left in state or storage.
AuthDataCleared ==
    /\ ~isAuthenticated
    /\ user = NullUser
    /\ token = NullString
    /\ error = NullString
    /\ localStorage[TOKEN_KEY] = NullString
    /\ localStorage[USER_KEY] = NullString

\* C20: every logout(), from whatever state, ends with isAuthenticated
\* false, user, token and error null and neither the token nor the user
\* record in localStorage.
LogoutClearsAllAuthData == [][Logout => AuthDataCleared']_vars

\* C20 witness: a login succeeded and stored its session, and after logout
\* nothing of it is left.
LoggedInThenLoggedOut ==
    /\ \E i \in DOMAIN network :
          /\ network[i].by = "login"
          /\ network[i].url = "/users/me"
          /\ network[i].outcome = "ok"
          /\ i = Len(network)
    /\ authPc = "ready"
    /\ AuthDataCleared

\* The callback page was opened with a token and no error parameter.
TokenArrival == Truthy(searchParams.token) /\ ~Truthy(searchParams.error)

CallbackFinished ==
    /\ callbackPc \in {"stored", "waiting", "closed"}
    /\ Count(events, "effect") >= 1
    /\ location # "/login/google"

\* C28 as stated: whenever a callback has finished, whatever its outcome,
\* oauth_in_progress is cleared.
OAuthFlagClearedWhenCallbackFinished ==
    CallbackFinished => ~Truthy(sessionStorage)

\* C22: starting an analysis clears the previous result and error before
\* the request is sent, so while a request is in flight the tab shows
\* neither, and afterwards it shows either the result of the analysis
\* started last, for the channel and file it was started with, and no error,
\* or an error and no result.
NewAnalysisReplacesOld ==
    /\ InFlight(uploads) # {} => (analysisResult = NoResult /\ analysisError = NullString)
    /\ analysisResult # NoResult =>
          /\ analysisError = NullString
          /\ analysisResult.of = Len(uploads)
          /\ uploads[Len(uploads)].outcome = "ok"
          /\ analysisResult.channel_type = uploads[Len(uploads)].channel_type
          /\ analysisResult.file_name = uploads[Len(uploads)].file_name
    /\ analysisError # NullString => analysisResult = NoResult

\* C22 witness: a first analysis gave a result, a second one for another
\* file was rejected, and the tab shows the error only.
SecondAnalysisErrorOnly ==
    /\ Len(uploads) = 2
    /\ uploads[1].outcome = "ok"
    /\ uploads[2].outcome = "rejected"
    /\ uploads[2].file_name # uploads[1].file_name
    /\ analysisResult = NoResult
    /\ analysisError = "Analysis failed: Bad Request"
    /\ ~isAnalyzing

\* C23 as stated: with no channel selected or no file uploaded, a click on
\* the Analyze button shows the selection error and sends no request.
ClickWithoutSelectionShowsError ==
    NothingSelected(selectedChannel, file) =>
        (ErrorAfterClick = SelectionError /\ ~ClickSends)

\* The analysis number i ends in this step.
AnalysisEnds(i) ==
    /\ i \in DOMAIN uploads'
    /\ uploads'[i].outcome # "pending"
    /\ i \in DOMAIN uploads => uploads[i].outcome = "pending"

\* C30: at most one dynamic-analysis request is in flight, isAnalyzing is
\* true exactly while one is, and the step that ends an analysis leaves
\* isAnalyzing false and exactly one of result and error set: the result
\* when the response was OK, the error when no token was found, the
\* response was not OK or the fetch threw.
OneAnalysisAtATime ==
    /\ [](Cardinality(InFlight(uploads)) <= 1)
    /\ [](isAnalyzing <=> InFlight(uploads) # {})
    /\ [][\A i \in 1..MaxAnalyses : AnalysisEnds(i) =>
            /\ ~isAnalyzing'
            /\ (analysisResult' # NoResult) # (analysisError' # NullString)
            /\ (analysisResult' # NoResult) <=> (uploads'[i].outcome = "ok")]_vars

\* C30 witness: three analyses ended, one with a result, one rejected, one
\* whose fetch threw; none is in flight and the tab shows the last error.
ThreeAnalysesEnded ==
    /\ Len(uploads) = 3
    /\ uploads[1].outcome = "ok"
    /\ uploads[2].outcome = "rejected"
    /\ uploads[3].outcome = "unreachable"
    /\ ~isAnalyzing
    /\ analysisResult = NoResult
    /\ analysisError = "Failed to fetch"

\* C26: isLoading is true from mount until initializeAuth has ended and
\* from the start of login() until it has ended, and false once they have
\* ended, however they ended: the loading screen never outlasts the
\* requests.
LoadingOnlyWhileAuthPending ==
    /\ authPc \in {"unmounted", "verifying", "login-token", "login-user"} => isLoading
    /\ authPc = "ready" => ~isLoading

\* C26 witness: the profile fetch of a login threw, and the loading screen
\* is gone.
LoginThrewLoadingOff ==
    /\ Len(network) >= 2
    /\ network[Len(network)].by = "login"
    /\ network[Len(network)].url = "/users/me"
    /\ network[Len(network)].outcome = "unreachable"
    /\ authPc = "ready"
    /\ ~isLoading

\* A request of login() ends without an OK response in this step.
LoginFailsNow ==
    /\ authPc \in {"login-token", "login-user"}
    /\ \E i \in DOMAIN network :
          /\ network[i].by = "login"
          /\ network[i].outcome = "pending"
          /\ network'[i].outcome \in {"rejected", "unreachable"}

\* C27: when login() fails, at POST /token or at GET /users/me, it leaves
\* isAuthenticated false, token and user null, auth_token and auth_user
\* absent from localStorage and the failure's message in error, and throws
\* that error to its caller, whether or not a session existed before.
FailedLoginClearsSession ==
    [][LoginFailsNow =>
            /\ ~isAuthenticated'
            /\ token' = NullString
            /\ user' = NullUser
            /\ localStorage'[TOKEN_KEY] = NullString
            /\ localStorage'[USER_KEY] = NullString
            /\ Truthy(error')
            /\ locals'.thrown = error'
            /\ authPc' = "ready"]_vars

\* C27 witness: the stored session was restored, then a login was rejected
\* at POST /token: nothing of the session is left and the error is set.
SessionLostToRejectedLogin ==
    /\ Len(network) = 2
    /\ Verified("ok")
    /\ network[2].by = "login"
    /\ network[2].url = "/token"
    /\ network[2].outcome = "rejected"
    /\ ~isAuthenticated
    /\ localStorage = EmptyStorage
    /\ error = "Incorrect username or password"
    /\ locals.thrown = error

\* C25 as stated: whenever isAuthenticated is true, token and user are set
\* and localStorage holds auth_token and auth_user.
AuthenticatedImpliesSessionStored ==
    isAuthenticated =>
        /\ token # NullString
        /\ user # NullUser
        /\ Truthy(localStorage[TOKEN_KEY])
        /\ Truthy(localStorage[USER_KEY])

\* C24 as stated: every request to the backend's API carries an
\* Authorization header with a token (POST /token, which obtains the token,
\* set aside).
EveryApiRequestCarriesToken ==
    /\ \A i \in DOMAIN network : network[i].url # "/token" => Truthy(network[i].auth)
    /\ \A i \in DOMAIN uploads : uploads[i].outcome # "no token" => Truthy(uploads[i].auth)
    /\ tabRequest.outcome \notin {"none", "not sent"} => Truthy(tabRequest.auth)

\* A tab component runs its token lookup in this step: fetchRecommendations,
\* or handleAnalyze past its selection test.
RecommendationsRequested ==
    tabRequest' # tabRequest /\ tabRequest'.by = "fetchRecommendations"
     /\ tabRequest'.outcome \in {"pending", "not sent"}

AnalysisRequested == Len(uploads') = Len(uploads) + 1

====
